---- MODULE Spec2Model ----
(***************************************************************************)
(* fs-jira: a Jira workspace presented as a FUSE filesystem.               *)
(*                                                                         *)
(* The module holds the following specifications over one set of           *)
(* variables:                                                              *)
(*   Spec            the sync-state coordinator (sync_state.rs), the       *)
(*                   initial-sync thread and the control-file writes of    *)
(*                   fs.rs                                                 *)
(*   SpecStore       the durable SQLite store (cache/persistent.rs),       *)
(*                   every statement succeeding                            *)
(*   SpecStoreFaults the same store when statements may fail               *)
(*   SpecBatch       the batch calls of the store, statements may fail     *)
(*   SpecCache       the memory cache over the durable store (cache.rs)    *)
(*   SpecSync        the sync engine (warmup.rs) against an upstream       *)
(*                   tracker, every statement of the store succeeding      *)
(*   SpecSyncFaults  the sync engine when a statement of the store fails   *)
(*   SpecFs          the open and write handlers of fs.rs and the manual   *)
(*                   triggers of sync_state.rs                             *)
(*   SpecView        the lookup handler of fs.rs over the workspace        *)
(*                   listings of the memory cache                          *)
(*   SpecCacheFaults the upserts of the memory cache when a statement of   *)
(*                   the store fails                                       *)
(*   SpecCursor      the sync cursors of the store under passes, set, get  *)
(*                   and clear                                             *)
(*   SpecMount       the initial sync pass of a mount over an existing     *)
(*                   database                                              *)
(*   SpecRead        the read handler of fs.rs for issue files             *)
(*   SpecRace        calls on the memory cache from several threads, one   *)
(*                   critical section at a time                            *)
(*   SpecDir         the readdir handler of fs.rs                          *)
(*   SpecTrig        the manual triggers under control-file writes and     *)
(*                   the sync threads                                      *)
(*   SpecInitial     the initial sync thread running real passes;          *)
(*   SpecInitialFair the same with the thread scheduled fairly             *)
(*   SpecAttr        the sizes that lookup and getattr of fs.rs report     *)
(*   SpecJql         split_jql_order_by of warmup.rs on query texts        *)
(*   SpecInode       the inode hashes of fs.rs at 64 bits                  *)
(* Each specification leaves the variables of the other components at      *)
(* their constructed values.                                               *)
(***************************************************************************)
EXTENDS Integers, Sequences, FiniteSets, TLC

(***************************************************************************)
(* Bounds of the model.                                                    *)
(***************************************************************************)
NumWorkers == 1
MaxSyncTime == 1
MaxTime == 2
MaxAccess == 3
MaxBatch == 2
MaxTtl == 1
MaxStale == 2
MaxPending == 2

None == "None"

(***************************************************************************)
(* Program constants.                                                      *)
(***************************************************************************)
INO_LAST_SYNC == 4097
INO_MANUAL_REFRESH == 4099
INO_FULL_REFRESH == 4100
INO_SYNC_META == 4096
INO_SECONDS_TO_NEXT == 4098
INO_LAST_FULL_SYNC == 4101
INO_PROJECTS == 8192
INO_TICKETS == 12288
INO_TICKETS_INDEX == 12289
\* INodeNo::ROOT
ROOT == 1

VARIABLES
    \* SyncState
    last_sync, last_full_sync, manual_trigger, manual_full_trigger,
    sync_in_progress,
    \* JiraFuseFs
    initial_sync_started,
    \* the threads that run a sync pass: position and locals
    pc, force_full,
    \* the reply of the last filesystem call
    reply,
    \* wall clock (Instant::now)
    now,
    \* history: the mark_sync_start calls that returned true, and whether one
    \* returned false, since the last mark_sync_end
    wins, lost,
    \* PersistentCache: the tables of the SQLite store, each a set of rows
    issues, ticket_index, issue_sidecars,
    \* InMemoryCache: issue_markdown (issue key -> CacheEntry), whether a
    \* PersistentCache is configured, issue_ttl, project_ttl and the
    \* stale_served metric
    issue_markdown, persistent, issue_ttl, project_ttl, stale_served,
    \* InMemoryCache: whether the mutex of issue_markdown is held by a
    \* thread that will never release it; and, per thread inside a call on
    \* the cache, the position and the locals of that call
    issue_markdown_locked, frame,
    \* the last call made on the cache, the store or the sync engine, with
    \* its result
    last,
    \* history: per issue key the arguments of its last successful durable
    \* upsert (<<>> before the first)
    expect,
    \* PersistentCache: the sync_cursor table (workspace -> cursor)
    sync_cursor,
    \* InMemoryCache: project_issues (workspace -> CacheEntry of issue refs)
    project_issues,
    \* the configured workspaces, in order, each with its base query
    workspaces,
    \* the upstream tracker: issue key -> its updated stamp (0: no such issue)
    upstream,
    \* FsState: nodes (inode -> Node)
    nodes,
    \* history: per trigger the trigger calls since its last check_and_clear
    \* (counted up to MaxPending), and the last check_and_clear call with the
    \* value it returned
    pending, cleared

syncVars == <<last_sync, last_full_sync, manual_trigger, manual_full_trigger,
              sync_in_progress, initial_sync_started, pc, force_full, reply,
              wins, lost>>

storeVars == <<issues, ticket_index, issue_sidecars, expect>>

threadVars == <<issue_markdown_locked, frame>>

cacheVars == <<issue_markdown, persistent, issue_ttl, project_ttl,
               stale_served, threadVars>>

engineVars == <<sync_cursor, project_issues, workspaces, upstream>>

fsVars == <<nodes, pending, cleared>>

dataVars == <<storeVars, cacheVars, last, engineVars, fsVars>>

vars == <<syncVars, now, dataVars>>

(***************************************************************************)
(* Threads.  Thread 0 is the thread spawned by spawn_initial_sync; the     *)
(* others are the background sync workers (scheduled / manual).            *)
(***************************************************************************)
InitialThread == 0
Workers == 1..NumWorkers
Threads == {InitialThread} \cup Workers

(***************************************************************************)
(* Text: a byte string is a sequence of one-character strings.             *)
(***************************************************************************)
IsSpace(c) == c \in {" ", "\n", "\t", "\r"}

ToLowerChar(c) ==
    CASE c = "T" -> "t"
      [] c = "R" -> "r"
      [] c = "U" -> "u"
      [] c = "E" -> "e"
      [] c = "O" -> "o"
      [] c = "D" -> "d"
      [] c = "B" -> "b"
      [] c = "Y" -> "y"
      [] OTHER -> c

\* No letter is lowercased.
ToLowercaseKeeps(s) == s

ToLowercase(s) == [i \in 1..Len(s) |-> ToLowerChar(s[i])]

RECURSIVE TrimStart(_)
TrimStart(s) ==
    IF s # <<>> /\ IsSpace(Head(s)) THEN TrimStart(Tail(s)) ELSE s

RECURSIVE TrimEnd(_)
TrimEnd(s) ==
    IF s # <<>> /\ IsSpace(s[Len(s)])
    THEN TrimEnd(SubSeq(s, 1, Len(s) - 1))
    ELSE s

Trim(s) == TrimEnd(TrimStart(s))

(***************************************************************************)
(* SyncState (sync_state.rs).                                              *)
(***************************************************************************)
\* AtomicBool::compare_exchange(expected, new) on a flag holding cur:
\* the result (whether it won) and the value left in the flag.
CompareExchangeLost(cur, expected, new) ==
    [ok |-> TRUE, val |-> new]

CompareExchange(cur, expected, new) ==
    [ok |-> cur = expected, val |-> IF cur = expected THEN new ELSE cur]

\* A swap that leaves the flag as it was.
SwapKeeps(cur, new) == [prev |-> cur, val |-> cur]

\* AtomicBool::swap(new): the previous value and the value left.
Swap(cur, new) == [prev |-> cur, val |-> new]

\* mark_sync_start by thread t: the thread's next position is won when the
\* exchange succeeded and elsewhere otherwise.
mark_sync_start(t, onTrue, onFalse) ==
    LET r == CompareExchange(sync_in_progress, FALSE, TRUE) IN
    /\ sync_in_progress' = r.val
    /\ pc' = [pc EXCEPT ![t] = IF r.ok THEN onTrue ELSE onFalse]
    /\ wins' = IF r.ok THEN wins + 1 ELSE wins
    /\ lost' = (lost \/ ~r.ok)

mark_sync_end ==
    /\ sync_in_progress' = FALSE
    /\ wins' = 0
    /\ lost' = FALSE

\* A completion that records no instant.
mark_sync_complete_skipped == last_sync' = last_sync

mark_sync_complete == last_sync' = now

mark_full_sync_complete == last_full_sync' = now

trigger_manual == manual_trigger' = TRUE

trigger_manual_full == manual_full_trigger' = TRUE

(***************************************************************************)
(* JiraFuseFs::init -> spawn_initial_sync (fs.rs).                         *)
(***************************************************************************)
FsInit ==
    LET r == Swap(initial_sync_started, TRUE) IN
    /\ initial_sync_started' = r.val
    /\ pc' = IF r.prev THEN pc ELSE [pc EXCEPT ![InitialThread] = "start"]
    /\ UNCHANGED <<last_sync, last_full_sync, manual_trigger,
                   manual_full_trigger, sync_in_progress, force_full, reply,
                   wins, lost, now, dataVars>>

\* The spawned closure: if !mark_sync_start() { return; }
InitialMarkSyncStart ==
    /\ pc[InitialThread] = "start"
    /\ mark_sync_start(InitialThread, "syncing", "returned")
    /\ UNCHANGED <<last_sync, last_full_sync, manual_trigger,
                   manual_full_trigger, initial_sync_started, force_full,
                   reply, now, dataVars>>

\* sync_issues(&jira, &cache, &projects, sync_budget, false) runs and returns.
InitialSyncIssues ==
    /\ pc[InitialThread] = "syncing"
    /\ pc' = [pc EXCEPT ![InitialThread] = "synced"]
    /\ UNCHANGED <<last_sync, last_full_sync, manual_trigger,
                   manual_full_trigger, sync_in_progress,
                   initial_sync_started, force_full, reply, wins, lost,
                   now, dataVars>>

InitialMarkSyncComplete ==
    /\ pc[InitialThread] = "synced"
    /\ pc' = [pc EXCEPT ![InitialThread] = "ending"]
    /\ mark_sync_complete
    /\ UNCHANGED <<last_full_sync, manual_trigger, manual_full_trigger,
                   sync_in_progress, initial_sync_started, force_full, reply,
                   wins, lost, now, dataVars>>

InitialMarkSyncEnd ==
    /\ pc[InitialThread] = "ending"
    /\ mark_sync_end
    /\ pc' = [pc EXCEPT ![InitialThread] = "returned"]
    /\ UNCHANGED <<last_sync, last_full_sync, manual_trigger,
                   manual_full_trigger, initial_sync_started, force_full,
                   reply, now, dataVars>>

(***************************************************************************)
(* The background sync worker: polls the triggers and the schedule, claims *)
(* the slot with mark_sync_start and runs one pass.                        *)
(***************************************************************************)
WorkerPoll(t) ==
    /\ pc[t] = "poll"
    /\ LET full == Swap(manual_full_trigger, FALSE)
           man == Swap(manual_trigger, FALSE)
       IN
       /\ manual_full_trigger' = full.val
       /\ manual_trigger' = man.val
       /\ \E due \in BOOLEAN :
            /\ full.prev \/ man.prev \/ due
            /\ pc' = [pc EXCEPT ![t] = "start"]
            /\ force_full' = [force_full EXCEPT ![t] = full.prev]
    /\ UNCHANGED <<last_sync, last_full_sync, sync_in_progress,
                   initial_sync_started, reply, wins, lost,
                   now, dataVars>>

WorkerMarkSyncStart(t) ==
    /\ pc[t] = "start"
    /\ mark_sync_start(t, "syncing", "poll")
    /\ UNCHANGED <<last_sync, last_full_sync, manual_trigger,
                   manual_full_trigger, initial_sync_started, force_full,
                   reply, now, dataVars>>

WorkerSyncIssues(t) ==
    /\ pc[t] = "syncing"
    /\ pc' = [pc EXCEPT ![t] = "synced"]
    /\ UNCHANGED <<last_sync, last_full_sync, manual_trigger,
                   manual_full_trigger, sync_in_progress,
                   initial_sync_started, force_full, reply, wins, lost,
                   now, dataVars>>

WorkerMarkSyncComplete(t) ==
    /\ pc[t] = "synced"
    /\ mark_sync_complete
    /\ IF force_full[t] THEN mark_full_sync_complete
                        ELSE UNCHANGED last_full_sync
    /\ pc' = [pc EXCEPT ![t] = "ending"]
    /\ UNCHANGED <<manual_trigger, manual_full_trigger, sync_in_progress,
                   initial_sync_started, force_full, reply, wins, lost,
                   now, dataVars>>

WorkerMarkSyncEnd(t) ==
    /\ pc[t] = "ending"
    /\ mark_sync_end
    /\ pc' = [pc EXCEPT ![t] = "poll"]
    /\ UNCHANGED <<last_sync, last_full_sync, manual_trigger,
                   manual_full_trigger, initial_sync_started, force_full,
                   reply, now, dataVars>>

(***************************************************************************)
(* Filesystem::write (fs.rs).                                              *)
(***************************************************************************)
WriteInodes == {INO_LAST_SYNC, INO_MANUAL_REFRESH, INO_FULL_REFRESH}

WriteData == {
    <<"1">>, <<"t", "r", "u", "e", "\n">>, <<" ", "T", "r", "U", "e">>,
    <<"0">>, <<>> }

\* The handler with the offset looked at before the inode.
WriteOutcomeOffsetFirst(ino, offset, data) ==
    LET trimmed == Trim(ToLowercase(data))
        armed == trimmed = <<"1">> \/ trimmed = <<"t", "r", "u", "e">>
    IN IF offset # 0
       THEN [reply |-> [kind |-> "error", errno |-> "EINVAL"], arm |-> "none"]
       ELSE IF ino # INO_MANUAL_REFRESH /\ ino # INO_FULL_REFRESH
       THEN [reply |-> [kind |-> "error", errno |-> "EROFS"], arm |-> "none"]
       ELSE [reply |-> [kind |-> "written", size |-> Len(data)],
             arm |-> IF ~armed THEN "none"
                     ELSE IF ino = INO_FULL_REFRESH THEN "full" ELSE "manual"]

\* What Filesystem::write replies and which trigger it arms.
WriteOutcome(ino, offset, data) ==
    LET trimmed == Trim(ToLowercase(data))
        armed == trimmed = <<"1">> \/ trimmed = <<"t", "r", "u", "e">>
    IN IF ino # INO_MANUAL_REFRESH /\ ino # INO_FULL_REFRESH
       THEN [reply |-> [kind |-> "error", errno |-> "EROFS"], arm |-> "none"]
       ELSE IF offset # 0
       THEN [reply |-> [kind |-> "error", errno |-> "EINVAL"], arm |-> "none"]
       ELSE [reply |-> [kind |-> "written", size |-> Len(data)],
             arm |-> IF ~armed THEN "none"
                     ELSE IF ino = INO_FULL_REFRESH THEN "full" ELSE "manual"]

\* A write handler whose ignored and rejected writes reset both triggers.
WriteCallResets(ino, offset, data) ==
    \E w \in {WriteOutcome(ino, offset, data)} :
        /\ reply' = w.reply
        /\ IF w.arm = "full"
           THEN trigger_manual_full /\ UNCHANGED manual_trigger
           ELSE IF w.arm = "manual"
           THEN trigger_manual /\ UNCHANGED manual_full_trigger
           ELSE manual_trigger' = FALSE /\ manual_full_trigger' = FALSE

\* Filesystem::write on the reply and the two triggers.
WriteCall(ino, offset, data) ==
    \E w \in {WriteOutcome(ino, offset, data)} :
        /\ reply' = w.reply
        /\ IF w.arm = "full"
           THEN trigger_manual_full /\ UNCHANGED manual_trigger
           ELSE IF w.arm = "manual"
           THEN trigger_manual /\ UNCHANGED manual_full_trigger
           ELSE UNCHANGED <<manual_trigger, manual_full_trigger>>

Write(ino, offset, data) ==
    /\ WriteCall(ino, offset, data)
    /\ UNCHANGED <<last_sync, last_full_sync, sync_in_progress,
                   initial_sync_started, pc, force_full, wins, lost,
                   now, dataVars>>

(***************************************************************************)
(* Time passes.                                                            *)
(***************************************************************************)
Tick ==
    /\ now < MaxSyncTime
    /\ now' = now + 1
    /\ UNCHANGED <<syncVars, dataVars>>

(***************************************************************************)
(* PersistentCache (cache/persistent.rs).                                  *)
(*                                                                         *)
(* A table is the set of its rows; issue_key is the primary key.  The      *)
(* operations take the statement that fails as a parameter (0: none): an   *)
(* INSERT, UPDATE or COMMIT may fail (disk full, read-only file, I/O       *)
(* error), and a failed statement changes nothing by itself.               *)
(***************************************************************************)
Str_UNKNOWN == <<"U", "N", "K", "N", "O", "W", "N">>
Str_projects == <<"p", "r", "o", "j", "e", "c", "t", "s", "/">>
Str_md == <<".", "m", "d">>

Key_AB2 == <<"A", "-", "B", "-", "2">>
Key_X3 == <<"X", "3">>

IssueKeys == {Key_AB2, Key_X3}
Markdowns == {"m1", "m2"}
Updateds == {None, "u1"}

\* Decimal digits of n, as u64::to_string writes them.
RECURSIVE to_string(_)
to_string(n) ==
    LET digit == <<"0", "1", "2", "3", "4", "5", "6", "7", "8", "9">>[(n % 10) + 1]
    IN IF n < 10 THEN <<digit>> ELSE Append(to_string(n \div 10), digit)

\* SystemTime::now().duration_since(UNIX_EPOCH) at clock value t.
unix_epoch_seconds_string(t) ==
    IF t >= 0 THEN to_string(t) ELSE <<"0">>

\* The index of the first c in s, 0 when there is none.
RECURSIVE FindFrom(_, _, _)
FindFrom(s, c, i) ==
    IF i > Len(s) THEN 0
    ELSE IF s[i] = c THEN i
    ELSE FindFrom(s, c, i + 1)

\* The index of the last c in s, 0 when there is none.
RECURSIVE RFindFrom(_, _, _)
RFindFrom(s, c, i) ==
    IF i < 1 THEN 0
    ELSE IF s[i] = c THEN i
    ELSE RFindFrom(s, c, i - 1)

project_from_issue_key_rsplit(issue_key) ==
    LET i == RFindFrom(issue_key, "-", Len(issue_key))
    IN IF i = 0 THEN Str_UNKNOWN ELSE SubSeq(issue_key, 1, i - 1)

project_from_issue_key(issue_key) ==
    LET i == FindFrom(issue_key, "-", 1)
    IN IF i = 0 THEN Str_UNKNOWN ELSE SubSeq(issue_key, 1, i - 1)

HasRow(tbl, key) == \E r \in tbl : r.issue_key = key

RowOf(tbl, key) == CHOOSE r \in tbl : r.issue_key = key

\* INSERT INTO issues ... ON CONFLICT(issue_key) DO UPDATE SET ...
ExecUpsertIssues(tbl, key, markdown, updated, cached_at) ==
    IF HasRow(tbl, key)
    THEN { IF r.issue_key = key
           THEN [r EXCEPT !.markdown = markdown, !.updated = updated,
                          !.cached_at = cached_at,
                          !.access_count = r.access_count + 1]
           ELSE r : r \in tbl }
    ELSE tbl \cup {[issue_key |-> key, markdown |-> markdown,
                    updated |-> updated, cached_at |-> cached_at,
                    access_count |-> 1]}

\* upsert_ticket_index: INSERT INTO ticket_index ... ON CONFLICT DO UPDATE
upsert_ticket_index(tbl, issue_key, updated, cached_at) ==
    LET project == project_from_issue_key(issue_key)
        row == [issue_key |-> issue_key, project |-> project,
                updated_at |-> updated,
                path |-> Str_projects \o project \o <<"/">> \o issue_key
                         \o Str_md,
                last_indexed_at |-> cached_at]
    IN IF HasRow(tbl, issue_key)
       THEN { IF r.issue_key = issue_key THEN row ELSE r : r \in tbl }
       ELSE tbl \cup {row}

\* INSERT INTO issue_sidecars ... ON CONFLICT(issue_key) DO UPDATE SET ...
ExecUpsertSidecars(tbl, key, comments_md, comments_jsonl, updated, cached_at) ==
    LET row == [issue_key |-> key, comments_md |-> comments_md,
                comments_jsonl |-> comments_jsonl, updated |-> updated,
                cached_at |-> cached_at]
    IN IF HasRow(tbl, key)
       THEN { IF r.issue_key = key THEN row ELSE r : r \in tbl }
       ELSE tbl \cup {row}

\* The database as one value.
Db == [issues |-> issues, ticket_index |-> ticket_index,
       issue_sidecars |-> issue_sidecars]

\* PersistentCache::upsert_issue on database db at clock t.  fail names the
\* statement that fails: 0 none, 1 the issues statement, 2 the ticket_index
\* statement.  The connection is in autocommit mode: each statement that
\* succeeded stays applied.
persistent_upsert_issue(db, key, markdown, updated, t, fail) ==
    LET ts == unix_epoch_seconds_string(t)
        db1 == [db EXCEPT !.issues =
                    ExecUpsertIssues(db.issues, key, markdown, updated, ts)]
        db2 == [db1 EXCEPT !.ticket_index =
                    upsert_ticket_index(db1.ticket_index, key, updated, ts)]
    IN IF fail = 1 THEN [db |-> db, ok |-> FALSE]
       ELSE IF fail = 2 THEN [db |-> db1, ok |-> FALSE]
       ELSE [db |-> db2, ok |-> TRUE]

\* A transaction dropped without commit rolls back: the database is as it
\* was at conn.transaction().
RollbackKeepsPartial(before, work) == work

Rollback(before, work) == before

\* A loop that writes the ticket_index row of a new key only (INSERT OR
\* IGNORE), unlike upsert_ticket_index; C10 tells it from the real loop.
RECURSIVE IssuesBatchLoopIndexOnce(_, _, _, _, _)
IssuesBatchLoopIndexOnce(work, rows, i, ts, fail) ==
    IF i > Len(rows) THEN [db |-> work, ok |-> TRUE, count |-> Len(rows)]
    ELSE IF fail = 2 * i - 1 THEN [db |-> work, ok |-> FALSE, count |-> i - 1]
    ELSE IF fail = 2 * i
    THEN [db |-> [work EXCEPT !.issues =
                     ExecUpsertIssues(work.issues, rows[i][1], rows[i][2],
                                      rows[i][3], ts)],
          ok |-> FALSE, count |-> i - 1]
    ELSE IssuesBatchLoopIndexOnce(
            [work EXCEPT
                !.issues = ExecUpsertIssues(work.issues, rows[i][1],
                                            rows[i][2], rows[i][3], ts),
                !.ticket_index =
                    IF HasRow(work.ticket_index, rows[i][1])
                    THEN work.ticket_index
                    ELSE upsert_ticket_index(work.ticket_index, rows[i][1],
                                             rows[i][3], ts)],
            rows, i + 1, ts, fail)

\* The statements of upsert_issues_batch's loop from row i on, inside the
\* transaction.  Statement 2i-1 writes row i's issues row and statement 2i
\* its ticket_index row; fail names the failing statement (0: none).
RECURSIVE IssuesBatchLoop(_, _, _, _, _)
IssuesBatchLoop(work, rows, i, ts, fail) ==
    IF i > Len(rows) THEN [db |-> work, ok |-> TRUE, count |-> Len(rows)]
    ELSE IF fail = 2 * i - 1 THEN [db |-> work, ok |-> FALSE, count |-> i - 1]
    ELSE IF fail = 2 * i
    THEN [db |-> [work EXCEPT !.issues =
                     ExecUpsertIssues(work.issues, rows[i][1], rows[i][2],
                                      rows[i][3], ts)],
          ok |-> FALSE, count |-> i - 1]
    ELSE IssuesBatchLoop(
            [work EXCEPT
                !.issues = ExecUpsertIssues(work.issues, rows[i][1],
                                            rows[i][2], rows[i][3], ts),
                !.ticket_index = upsert_ticket_index(work.ticket_index,
                                                     rows[i][1], rows[i][3],
                                                     ts)],
            rows, i + 1, ts, fail)

\* PersistentCache::upsert_issues_batch.  fail = 2 * Len(rows) + 1 is a
\* failing COMMIT.
persistent_upsert_issues_batch(db, rows, t, fail) ==
    LET r == IssuesBatchLoop(db, rows, 1, unix_epoch_seconds_string(t), fail)
    IN IF r.ok /\ fail # 2 * Len(rows) + 1
       THEN [db |-> r.db, ok |-> TRUE, count |-> r.count]
       ELSE [db |-> Rollback(db, r.db), ok |-> FALSE, count |-> 0]

\* The loop of upsert_issue_sidecars_batch: statement i writes row i.
RECURSIVE SidecarsBatchLoop(_, _, _, _, _)
SidecarsBatchLoop(work, rows, i, ts, fail) ==
    IF i > Len(rows) THEN [db |-> work, ok |-> TRUE, count |-> Len(rows)]
    ELSE IF fail = i THEN [db |-> work, ok |-> FALSE, count |-> i - 1]
    ELSE SidecarsBatchLoop(
            [work EXCEPT !.issue_sidecars =
                ExecUpsertSidecars(work.issue_sidecars, rows[i][1], rows[i][2],
                                   rows[i][3], rows[i][4], ts)],
            rows, i + 1, ts, fail)

\* PersistentCache::upsert_issue_sidecars_batch.  fail = Len(rows) + 1 is a
\* failing COMMIT.
persistent_upsert_issue_sidecars_batch(db, rows, t, fail) ==
    LET r == SidecarsBatchLoop(db, rows, 1, unix_epoch_seconds_string(t), fail)
    IN IF r.ok /\ fail # Len(rows) + 1
       THEN [db |-> r.db, ok |-> TRUE, count |-> r.count]
       ELSE [db |-> Rollback(db, r.db), ok |-> FALSE, count |-> 0]

\* PersistentCache::get_issue.  fail = 1: the access_count UPDATE fails.
\* The result is Ok(Some(row)), Ok(None) or Err.
persistent_get_issue(db, key, fail) ==
    IF ~HasRow(db.issues, key)
    THEN [db |-> db, ok |-> TRUE, some |-> FALSE,
          markdown |-> None, updated |-> None]
    ELSE LET row == RowOf(db.issues, key) IN
         IF fail = 1
         THEN [db |-> db, ok |-> FALSE, some |-> FALSE,
               markdown |-> None, updated |-> None]
         ELSE [db |-> [db EXCEPT !.issues =
                        { IF r.issue_key = key
                          THEN [r EXCEPT !.access_count = r.access_count + 1]
                          ELSE r : r \in db.issues }],
               ok |-> TRUE, some |-> TRUE,
               markdown |-> row.markdown, updated |-> row.updated]

\* PersistentCache::new on an existing database: the migration backfills
\* ticket_index rows for issues rows that have none (INSERT OR IGNORE).
persistent_new(db, t) ==
    LET ts == unix_epoch_seconds_string(t)
        missing == { r \in db.issues : ~HasRow(db.ticket_index, r.issue_key) }
    IN [db EXCEPT !.ticket_index = db.ticket_index \cup
            { [issue_key |-> r.issue_key,
               project |-> project_from_issue_key(r.issue_key),
               updated_at |-> r.updated,
               path |-> Str_projects \o project_from_issue_key(r.issue_key)
                        \o <<"/">> \o r.issue_key \o Str_md,
               last_indexed_at |-> ts] : r \in missing }]

(***************************************************************************)
(* The calls on the durable store, as SpecStore makes them.                *)
(***************************************************************************)
SeqsUpTo(S, n) == UNION { [1..k -> S] : k \in 0..n }

IssueRows == IssueKeys \X Markdowns \X Updateds

\* The rows the batch calls draw from: two values for one key, one for the
\* other, so that batches overwrite, repeat a key and span two keys.
BatchIssueRows == { <<Key_AB2, "m1", "u1">>, <<Key_AB2, "m2", None>>,
                    <<Key_X3, "m1", "u1">> }
IssueBatches == SeqsUpTo(BatchIssueRows, MaxBatch)

BatchSidecarRows == { <<Key_AB2, "c1", "j1", "u1">>,
                      <<Key_X3, "c2", "j2", None>> }
SidecarBatches == SeqsUpTo(BatchSidecarRows, MaxBatch)

\* access_count is unbounded in the program; the model stops writing a row
\* whose counter has reached MaxAccess.
CanAccess(key) ==
    HasRow(issues, key) => RowOf(issues, key).access_count < MaxAccess

KeysOf(rows) == { rows[i][1] : i \in 1..Len(rows) }

\* Each key of the batch can take as many writes as the batch holds for it.
CanAccessBatch(rows) ==
    \A k \in KeysOf(rows) :
        HasRow(issues, k) =>
            RowOf(issues, k).access_count
                + Cardinality({ i \in 1..Len(rows) : rows[i][1] = k })
                <= MaxAccess

SetDb(db) ==
    /\ issues' = db.issues
    /\ ticket_index' = db.ticket_index
    /\ issue_sidecars' = db.issue_sidecars

NoCall == [op |-> "none", key |-> <<>>, ok |-> TRUE, some |-> FALSE,
           fetched |-> <<>>, consulted |-> FALSE,
           markdown |-> None, updated |-> None, count |-> 0, n |-> 0, fail |-> 0,
           budget |-> 0, force_full |-> FALSE,
           result |-> [issues_cached |-> 0, issues_skipped |-> 0,
                       errors |-> <<>>],
           log |-> <<>>, parent |-> 0, name |-> <<>>, metric |-> "none",
           rows |-> <<>>, returned |-> TRUE]

\* The value of row key in the last row of the batch that names it.
LastRowFor(rows, key) ==
    rows[CHOOSE i \in 1..Len(rows) :
            /\ rows[i][1] = key
            /\ \A j \in (i + 1)..Len(rows) : rows[j][1] # key]

StoreUpsertIssue(key, markdown, updated, fail) ==
    /\ CanAccess(key)
    /\ \E r \in {persistent_upsert_issue(Db, key, markdown, updated, now, fail)} :
          /\ SetDb(r.db)
          /\ last' = [NoCall EXCEPT !.op = "upsert_issue", !.key = key,
                                    !.ok = r.ok, !.fail = fail]
          /\ expect' = IF r.ok
                       THEN [expect EXCEPT ![key] = <<markdown, updated>>]
                       ELSE expect
    /\ UNCHANGED <<syncVars, fsVars, engineVars, cacheVars, now>>

StoreUpsertIssuesBatch(rows, fail) ==
    /\ CanAccessBatch(rows)
    /\ \E r \in {persistent_upsert_issues_batch(Db, rows, now, fail)} :
          /\ SetDb(r.db)
          /\ last' = [NoCall EXCEPT !.op = "upsert_issues_batch",
                                    !.ok = r.ok, !.count = r.count,
                                    !.n = Len(rows), !.fail = fail]
          /\ expect' = IF r.ok
                       THEN [k \in IssueKeys |->
                                IF k \in KeysOf(rows)
                                THEN <<LastRowFor(rows, k)[2],
                                       LastRowFor(rows, k)[3]>>
                                ELSE expect[k]]
                       ELSE expect
    /\ UNCHANGED <<syncVars, fsVars, engineVars, cacheVars, now>>

StoreUpsertSidecarsBatch(rows, fail) ==
    /\ \E r \in {persistent_upsert_issue_sidecars_batch(Db, rows, now, fail)} :
          /\ SetDb(r.db)
          /\ last' = [NoCall EXCEPT !.op = "upsert_issue_sidecars_batch",
                                    !.ok = r.ok, !.count = r.count,
                                    !.n = Len(rows), !.fail = fail]
    /\ UNCHANGED <<syncVars, fsVars, engineVars, cacheVars, now, expect>>

StoreGetIssue(key, fail) ==
    /\ CanAccess(key)
    /\ \E r \in {persistent_get_issue(Db, key, fail)} :
          /\ SetDb(r.db)
          /\ last' = [NoCall EXCEPT !.op = "get_issue", !.key = key,
                                    !.ok = r.ok, !.some = r.some,
                                    !.markdown = r.markdown,
                                    !.updated = r.updated,
                                    !.fail = fail]
    /\ UNCHANGED <<syncVars, fsVars, engineVars, cacheVars, now, expect>>

\* The process restarts and opens the same database file.
StoreReopen ==
    /\ SetDb(persistent_new(Db, now))
    /\ last' = [NoCall EXCEPT !.op = "new"]
    /\ UNCHANGED <<syncVars, fsVars, engineVars, cacheVars, now, expect>>

(***************************************************************************)
(* InMemoryCache (cache.rs): the issue_markdown map over the durable       *)
(* store.  An Option is the set of at most one value.  The result of       *)
(* fetch is <<"err">> or <<"ok", bytes, updated>>.                         *)
(***************************************************************************)
FetchResults == {<<"err">>} \cup { <<"ok", m, u>> : m \in Markdowns, u \in Updateds }

\* HashMap::get(..).cloned()
Lookup(mem, key) == IF key \in DOMAIN mem THEN {mem[key]} ELSE {}

\* HashMap::insert
Insert(mem, key, entry) ==
    [k \in DOMAIN mem \cup {key} |-> IF k = key THEN entry ELSE mem[k]]

\* CacheEntry { value: CachedIssue { markdown }, cached_at, ttl, source_updated }
CacheEntry(markdown, cached_at, ttl, source_updated) ==
    [markdown |-> markdown, cached_at |-> cached_at, ttl |-> ttl,
     source_updated |-> source_updated]

\* now.duration_since(entry.cached_at) < entry.ttl
IsFreshNever(entry, t) == FALSE

IsFresh(entry, t) == t - entry.cached_at < entry.ttl

\* existing.is_none(): the durable row is looked up only then
ShouldHydrateAlways(existing) == TRUE

ShouldHydrate(existing) == existing = {}

\* the entry built from the durable row
HydratedNoSource(issue, t, ttl) == CacheEntry(issue.markdown, t, ttl, None)

Hydrated(issue, t, ttl) == CacheEntry(issue.markdown, t, ttl, issue.updated)

\* entry.source_updated == fresh_updated
SameSource(entry, fresh_updated) == entry.source_updated = fresh_updated

\* the Err arm of the match on fetched, given the entry read at the start
OnFetchErrFails(c, existing) ==
    [c EXCEPT !.ok = FALSE]

OnFetchErr(c, existing) ==
    IF existing # {}
    THEN [c EXCEPT !.stale_served = c.stale_served + 1,
                   !.markdown = (CHOOSE e \in existing : TRUE).markdown]
    ELSE [c EXCEPT !.ok = FALSE]

\* Mutex::lock on a mutex the calling thread already holds does not
\* return: the thread blocks forever with the mutex held, or it panics and
\* the unwinding releases the (then poisoned) mutex, which lock_or_recover
\* takes all the same.
RelockOutcomes == {"deadlock", "panic"}

\* the body of `if entry.source_updated == fresh_updated`, entered while
\* the guard of the second lookup (a temporary of the if-let scrutinee) is
\* still alive: its lock_or_recover locks issue_markdown a second time, so
\* neither the insert of the refreshed entry nor the return is reached.
RefreshSameSource(c, key, entry, t, relock) ==
    [c EXCEPT !.returned = FALSE, !.locked = (relock = "deadlock")]

\* the Ok arm: the map is looked up again; with an entry of the same
\* source_updated the call goes into RefreshSameSource, otherwise the
\* fetched value is stored in memory and upserted durably, the result of
\* the durable upsert being dropped.
OnFetchOk(c, key, fresh_markdown, fresh_updated, t, upsertFail, relock) ==
    LET again == Lookup(c.mem, key)
    IN IF \E e \in again : SameSource(e, fresh_updated)
       THEN RefreshSameSource(c, key, CHOOSE e \in again : TRUE, t, relock)
       ELSE [c EXCEPT
               !.mem = Insert(c.mem, key,
                              CacheEntry(fresh_markdown, t, c.issue_ttl,
                                         fresh_updated)),
               !.db = IF c.persistent
                      THEN persistent_upsert_issue(c.db, key, fresh_markdown,
                                                   fresh_updated, t,
                                                   upsertFail).db
                      ELSE c.db,
               !.markdown = fresh_markdown]

\* from inc_cache_miss on: fetch is called and its result matched
Fetch(c, existing, key, fetched, t, upsertFail, relock) ==
    LET called == [c EXCEPT !.fetched = fetched]
    IN IF fetched[1] = "err"
       THEN OnFetchErr(called, existing)
       ELSE OnFetchOk(called, key, fetched[2], fetched[3], t, upsertFail,
                      relock)

\* InMemoryCache::get_issue_markdown_stale_safe.  c is the cache with the
\* outcome of the call: returned is whether the call returned, ok and
\* markdown are the returned Result, fetched the result of fetch when it
\* was called (<<>> when not), consulted whether persistent.get_issue was
\* called, locked whether issue_markdown is left locked for good.
get_issue_markdown_stale_safe(c, key, fetched, t, getFail, upsertFail, relock) ==
    LET existing == Lookup(c.mem, key)
    IN IF \E e \in existing : IsFresh(e, t)
       THEN [c EXCEPT !.markdown = (CHOOSE e \in existing : TRUE).markdown]
       ELSE IF ShouldHydrate(existing) /\ c.persistent
       THEN LET got == persistent_get_issue(c.db, key, getFail)
                c1 == [c EXCEPT !.consulted = TRUE, !.db = got.db]
            IN IF got.ok /\ got.some
               THEN [c1 EXCEPT
                       !.mem = Insert(c.mem, key,
                                      Hydrated(got, t, c.issue_ttl)),
                       !.markdown = got.markdown]
               ELSE Fetch(c1, existing, key, fetched, t, upsertFail, relock)
       ELSE Fetch(c, existing, key, fetched, t, upsertFail, relock)

\* InMemoryCache::upsert_issue_direct
upsert_issue_direct(c, key, markdown, updated, t, upsertFail) ==
    [c EXCEPT
       !.mem = Insert(c.mem, key,
                      CacheEntry(markdown, t, c.issue_ttl, updated)),
       !.db = IF c.persistent
              THEN persistent_upsert_issue(c.db, key, markdown, updated, t,
                                           upsertFail).db
              ELSE c.db]

(***************************************************************************)
(* Calls on the memory cache.                                              *)
(***************************************************************************)
\* The cache before a call, with the fields that hold the call's outcome.
Cache == [mem |-> issue_markdown, db |-> Db, persistent |-> persistent,
          issue_ttl |-> issue_ttl, stale_served |-> stale_served,
          ok |-> TRUE, markdown |-> None, fetched |-> <<>>,
          consulted |-> FALSE, returned |-> TRUE,
          locked |-> issue_markdown_locked]

SetCache(c) ==
    /\ issue_markdown' = c.mem
    /\ SetDb(c.db)
    /\ stale_served' = c.stale_served
    /\ issue_markdown_locked' = c.locked
    /\ UNCHANGED <<persistent, issue_ttl, project_ttl, frame>>

\* One stale-safe read of key; fetch, if called, returns fetched.  A call
\* on a cache whose issue_markdown is locked for good never gets past its
\* first lock.
CacheRead(key, fetched, getFail, upsertFail, relock) ==
    /\ ~issue_markdown_locked
    /\ CanAccess(key)
    /\ stale_served < MaxStale
    /\ \E c \in {get_issue_markdown_stale_safe(Cache, key, fetched, now,
                                               getFail, upsertFail, relock)} :
          /\ SetCache(c)
          /\ last' = [NoCall EXCEPT !.op = "get_issue_markdown_stale_safe",
                                    !.key = key, !.ok = c.ok /\ c.returned,
                                    !.returned = c.returned,
                                    !.markdown = c.markdown,
                                    !.fetched = c.fetched,
                                    !.consulted = c.consulted]
    /\ UNCHANGED <<syncVars, fsVars, engineVars, now, expect>>

CacheUpsertIssueDirect(key, markdown, updated, upsertFail) ==
    /\ ~issue_markdown_locked
    /\ CanAccess(key)
    /\ SetCache(upsert_issue_direct(Cache, key, markdown, updated, now,
                                    upsertFail))
    /\ last' = [NoCall EXCEPT !.op = "upsert_issue_direct", !.key = key,
                              !.rows = <<<<key, markdown, updated>>>>,
                              !.fail = upsertFail]
    /\ UNCHANGED <<syncVars, fsVars, engineVars, now, expect>>

\* The process restarts: with_persistence opens the same database file and
\* the maps start empty; new starts with no durable store and nothing kept.
CacheRestart ==
    /\ issue_markdown' = <<>>
    /\ stale_served' = 0
    /\ issue_markdown_locked' = FALSE
    /\ SetDb(IF persistent THEN persistent_new(Db, now) ELSE Db)
    /\ project_issues' = <<>>
    /\ last' = [NoCall EXCEPT !.op = "new"]
    /\ UNCHANGED <<syncVars, fsVars, now, expect, persistent, issue_ttl,
                   project_ttl, frame, sync_cursor, workspaces, upstream>>

\* Time passes (Instant::now and the wall clock advance together).
CacheTick ==
    /\ now < MaxTime
    /\ now' = now + 1
    /\ last' = NoCall
    /\ UNCHANGED <<syncVars, fsVars, engineVars, storeVars, cacheVars>>

(***************************************************************************)
(* Spec: the sync-state coordinator and its threads.                       *)
(***************************************************************************)
SyncInit ==
    /\ last_sync = None
    /\ last_full_sync = None
    /\ manual_trigger = FALSE
    /\ manual_full_trigger = FALSE
    /\ sync_in_progress = FALSE
    /\ initial_sync_started = FALSE
    /\ pc = [t \in Threads |-> IF t = InitialThread THEN "unspawned" ELSE "poll"]
    /\ force_full = [t \in Threads |-> FALSE]
    /\ reply = [kind |-> "none"]
    /\ wins = 0
    /\ lost = FALSE
    /\ nodes = (ROOT :> "Root")
    /\ pending = [manual |-> 0, full |-> 0]
    /\ cleared = [flag |-> "none", value |-> FALSE, calls |-> 0]

StoreInit ==
    /\ issues = {}
    /\ ticket_index = {}
    /\ issue_sidecars = {}
    /\ expect = [k \in IssueKeys |-> <<>>]
    /\ sync_cursor = <<>>

\* No workspace is configured and the tracker is not queried.
TrackerInit ==
    /\ workspaces = <<>>
    /\ upstream = <<>>

CacheInit ==
    /\ issue_markdown = <<>>
    /\ project_issues = <<>>
    /\ persistent = FALSE
    /\ issue_ttl = 0
    /\ project_ttl = 0
    /\ issue_markdown_locked = FALSE
    /\ frame = <<>>
    /\ stale_served = 0

Init ==
    /\ SyncInit
    /\ StoreInit
    /\ CacheInit
    /\ TrackerInit
    /\ last = NoCall
    /\ now = 0

Next ==
    \/ FsInit
    \/ InitialMarkSyncStart
    \/ InitialSyncIssues
    \/ InitialMarkSyncComplete
    \/ InitialMarkSyncEnd
    \/ \E t \in Workers : WorkerPoll(t)
    \/ \E t \in Workers : WorkerMarkSyncStart(t)
    \/ \E t \in Workers : WorkerSyncIssues(t)
    \/ \E t \in Workers : WorkerMarkSyncComplete(t)
    \/ \E t \in Workers : WorkerMarkSyncEnd(t)
    \/ \E ino \in WriteInodes, offset \in {0, 1}, data \in WriteData :
          Write(ino, offset, data)
    \/ Tick

Spec == Init /\ [][Next]_vars

(***************************************************************************)
(* SpecStore: the durable store under any sequence of single upserts,      *)
(* reads and restarts, every statement succeeding.                         *)
(***************************************************************************)
InitStore ==
    /\ SyncInit
    /\ StoreInit
    /\ CacheInit
    /\ TrackerInit
    /\ last = NoCall
    /\ now = 0

NextStore ==
    \/ \E row \in IssueRows : StoreUpsertIssue(row[1], row[2], row[3], 0)
    \/ \E key \in IssueKeys : StoreGetIssue(key, 0)
    \/ StoreReopen

SpecStore == InitStore /\ [][NextStore]_vars

(***************************************************************************)
(* SpecStoreFaults: the same calls on a store whose statements may fail.   *)
(***************************************************************************)
NextStoreFaults ==
    \/ \E row \in IssueRows, fail \in 0..2 :
          StoreUpsertIssue(row[1], row[2], row[3], fail)
    \/ \E key \in IssueKeys, fail \in 0..1 : StoreGetIssue(key, fail)
    \/ StoreReopen

SpecStoreFaults == InitStore /\ [][NextStoreFaults]_vars

(***************************************************************************)
(* SpecBatch: the batch calls of the durable store, on a store whose       *)
(* statements may fail.                                                    *)
(***************************************************************************)
\* The statements of a batch call that may fail: two per issue row, one per
\* sidecar row, and the COMMIT.
IssueBatchFails(rows) == 0..(2 * Len(rows) + 1)

SidecarBatchFails(rows) == 0..(Len(rows) + 1)

NextBatch ==
    \/ \E rows \in IssueBatches :
          \E fail \in IssueBatchFails(rows) :
             StoreUpsertIssuesBatch(rows, fail)
    \/ \E rows \in SidecarBatches :
          \E fail \in SidecarBatchFails(rows) :
             StoreUpsertSidecarsBatch(rows, fail)

SpecBatch == InitStore /\ [][NextBatch]_vars

(***************************************************************************)
(* SpecCache: one memory cache, with or without a durable store, under     *)
(* reads, direct upserts, restarts and the passage of time.  The durable   *)
(* store's statements succeed; fetch may fail.                             *)
(***************************************************************************)
CacheKeys == {Key_AB2}

InitCache ==
    /\ SyncInit
    /\ StoreInit
    /\ TrackerInit
    /\ issue_markdown = <<>>
    /\ project_issues = <<>>
    /\ persistent \in BOOLEAN
    /\ issue_ttl \in 0..MaxTtl
    /\ project_ttl = 0
    /\ issue_markdown_locked = FALSE
    /\ frame = <<>>
    /\ stale_served = 0
    /\ last = NoCall
    /\ now = 0

NextCache ==
    \/ \E key \in CacheKeys, fetched \in FetchResults,
          relock \in RelockOutcomes :
          CacheRead(key, fetched, 0, 0, relock)
    \/ \E key \in CacheKeys, m \in Markdowns, u \in Updateds :
          CacheUpsertIssueDirect(key, m, u, 0)
    \/ CacheRestart
    \/ CacheTick

SpecCache == InitCache /\ [][NextCache]_vars

(***************************************************************************)
(* C1: at most one sync pass is in flight process-wide: between two        *)
(* consecutive mark_sync_end calls at most one mark_sync_start returns     *)
(* true, a thread is inside sync_issues only after it won, and no state    *)
(* has two threads inside sync_issues.                                     *)
(***************************************************************************)
InSyncPass(t) == pc[t] \in {"syncing", "synced", "ending"}

C1_AtMostOneSyncPass ==
    /\ wins <= 1
    /\ Cardinality({t \in Threads : InSyncPass(t)}) <= 1
    /\ \A t \in Threads : InSyncPass(t) => sync_in_progress /\ wins = 1

\* Two callers have raced for the slot: the initial-sync thread is inside
\* sync_issues and a worker's mark_sync_start has returned false.
C1_Witness ==
    /\ pc[InitialThread] = "syncing"
    /\ lost
    /\ \E t \in Workers : pc[t] = "poll"

(***************************************************************************)
(* The stale-safe read as seen from outside: the state before the step,    *)
(* the outcome recorded in last, and the state after it.                   *)
(***************************************************************************)
HasEntry(k) == k \in DOMAIN issue_markdown

WithinTtl(k) ==
    /\ HasEntry(k)
    /\ now - issue_markdown[k].cached_at < issue_markdown[k].ttl

Expired(k) == HasEntry(k) /\ ~WithinTtl(k)

IsReadOf(k) == last'.op = "get_issue_markdown_stale_safe" /\ last'.key = k

ReadDone == last.op = "get_issue_markdown_stale_safe"

(***************************************************************************)
(* C2: with a fresh memory entry for the key, the stale-safe read does not *)
(* call fetch, whatever fetch would have returned: it returns the cached   *)
(* bytes and leaves the memory entry and the durable row untouched.        *)
(***************************************************************************)
C2_FreshEntryNeverFetches ==
    [][ \A k \in CacheKeys :
           (IsReadOf(k) /\ WithinTtl(k)) =>
              /\ last'.fetched = <<>>
              /\ last'.ok
              /\ last'.markdown = issue_markdown[k].markdown
              /\ UNCHANGED <<issue_markdown, issues, ticket_index>>
      ]_vars

\* A read has been served from a fresh entry, with a durable row present.
C2_Witness ==
    /\ ReadDone
    /\ last.ok
    /\ last.fetched = <<>>
    /\ ~last.consulted
    /\ WithinTtl(last.key)
    /\ last.markdown = issue_markdown[last.key].markdown
    /\ HasRow(issues, last.key)

(***************************************************************************)
(* C3: when fetch returns Err, a key with a memory entry (even expired)    *)
(* gets Ok with the entry's bytes, stale_served grows by exactly one and   *)
(* the entry is unchanged; a key with no memory entry and no durable row   *)
(* gets the error, and no memory entry or durable row is created.          *)
(***************************************************************************)
C3_FetchErr ==
    [][ \A k \in CacheKeys :
           (IsReadOf(k) /\ last'.fetched = <<"err">>) =>
              /\ HasEntry(k) =>
                    /\ last'.ok
                    /\ last'.markdown = issue_markdown[k].markdown
                    /\ stale_served' = stale_served + 1
                    /\ UNCHANGED issue_markdown
              /\ (~HasEntry(k) /\ ~HasRow(issues, k)) =>
                    /\ ~last'.ok
                    /\ UNCHANGED <<issue_markdown, issues, ticket_index,
                                   stale_served>>
      ]_vars

\* An expired entry has been served because fetch failed.
C3_Witness ==
    /\ ReadDone
    /\ last.fetched = <<"err">>
    /\ last.ok
    /\ Expired(last.key)
    /\ last.markdown = issue_markdown[last.key].markdown
    /\ stale_served = 1

(***************************************************************************)
(* C4: a stale-safe read of a key with no memory entry and a durable row   *)
(* returns the durable markdown without calling fetch, and afterwards the  *)
(* memory entry holds that markdown, with source_updated = the row's       *)
(* updated and ttl = issue_ttl.                                            *)
(***************************************************************************)
C4_Hydration ==
    [][ \A k \in CacheKeys :
           (IsReadOf(k) /\ ~HasEntry(k) /\ persistent /\ HasRow(issues, k)) =>
              /\ last'.ok
              /\ last'.markdown = RowOf(issues, k).markdown
              /\ last'.fetched = <<>>
              /\ k \in DOMAIN issue_markdown'
              /\ issue_markdown'[k].markdown = RowOf(issues, k).markdown
              /\ issue_markdown'[k].source_updated = RowOf(issues, k).updated
              /\ issue_markdown'[k].ttl = issue_ttl
      ]_vars

\* A read after a restart has hydrated the entry from the durable row.
C4_Witness ==
    /\ ReadDone
    /\ last.ok
    /\ last.consulted
    /\ last.fetched = <<>>
    /\ last.markdown = "m2"
    /\ HasEntry(last.key)
    /\ issue_markdown[last.key].markdown = "m2"
    /\ issue_markdown[last.key].source_updated = "u1"
    /\ issue_markdown[last.key].cached_at > 0

(***************************************************************************)
(* C5: whenever the stale-safe read calls fetch and fetch returns          *)
(* Ok((bytes, upd)), the call returns exactly bytes, whether the memory    *)
(* entry is absent, stale with the same source_updated or stale with a     *)
(* different one.                                                          *)
(***************************************************************************)
C5_ReturnsFetchedBytes ==
    [][ \A k \in CacheKeys :
           (IsReadOf(k) /\ Len(last'.fetched) = 3) =>
              /\ last'.ok
              /\ last'.markdown = last'.fetched[2]
      ]_vars

(***************************************************************************)
(* C6 as stated: while the memory entry is within TTL every stale-safe     *)
(* read returns the memory value and the durable row is not consulted;     *)
(* once the entry's TTL has expired, the next stale-safe read consults     *)
(* the durable row.                                                        *)
(***************************************************************************)
C6_ExpiredReconsultsDurable ==
    [][ \A k \in CacheKeys :
           IsReadOf(k) =>
              /\ WithinTtl(k) =>
                    /\ last'.ok
                    /\ last'.markdown = issue_markdown[k].markdown
                    /\ ~last'.consulted
              /\ (Expired(k) /\ persistent) => last'.consulted
      ]_vars

(***************************************************************************)
(* C6, amended: while the memory entry is within TTL every stale-safe read *)
(* returns the memory value and the durable row is not consulted; once     *)
(* the entry's TTL has expired the next stale-safe read calls fetch and    *)
(* still does not consult the durable row.  The durable row is consulted   *)
(* exactly by the reads of a key that has no memory entry.                 *)
(***************************************************************************)
C6_DurableOnlyWithoutEntry ==
    [][ \A k \in CacheKeys :
           IsReadOf(k) =>
              /\ WithinTtl(k) =>
                    /\ last'.ok
                    /\ last'.markdown = issue_markdown[k].markdown
                    /\ ~last'.consulted
              /\ Expired(k) =>
                    /\ last'.fetched # <<>>
                    /\ ~last'.consulted
              /\ last'.consulted <=> (~HasEntry(k) /\ persistent)
      ]_vars

\* A read of an expired entry has gone to fetch, which failed, and has
\* served the entry; the durable row of the key was not consulted.
C6_Witness ==
    /\ ReadDone
    /\ persistent
    /\ HasRow(issues, last.key)
    /\ Expired(last.key)
    /\ last.fetched = <<"err">>
    /\ ~last.consulted
    /\ last.ok

(***************************************************************************)
(* C7: after upsert_issue(k, m, u) the next get_issue(k) returns (m, u),   *)
(* and ticket_index holds exactly one row for k, with updated_at = u,      *)
(* project = the text of k before its first '-' (UNKNOWN without one) and  *)
(* path = projects/{project}/{k}.md; a re-upsert overwrites the row.       *)
(***************************************************************************)
IndexRowsOf(k) == { r \in ticket_index : r.issue_key = k }

\* The project of the keys of the model, read off the key by hand.
ProjectByHand(k) ==
    CASE k = Key_AB2 -> <<"A">>
      [] k = Key_X3 -> Str_UNKNOWN

PathByHand(k) ==
    CASE k = Key_AB2 -> <<"p", "r", "o", "j", "e", "c", "t", "s", "/", "A", "/",
                          "A", "-", "B", "-", "2", ".", "m", "d">>
      [] k = Key_X3 -> <<"p", "r", "o", "j", "e", "c", "t", "s", "/",
                         "U", "N", "K", "N", "O", "W", "N", "/",
                         "X", "3", ".", "m", "d">>

C7_UpsertThenGet ==
    /\ \A k \in IssueKeys :
          expect[k] # <<>> =>
             /\ Cardinality(IndexRowsOf(k)) = 1
             /\ \A r \in IndexRowsOf(k) :
                   /\ r.updated_at = expect[k][2]
                   /\ r.project = ProjectByHand(k)
                   /\ r.path = PathByHand(k)
    /\ (last.op = "get_issue" /\ expect[last.key] # <<>>) =>
          /\ last.ok /\ last.some
          /\ last.markdown = expect[last.key][1]
          /\ last.updated = expect[last.key][2]

\* get_issue has read a key that was upserted twice, with different values.
C7_Witness ==
    /\ last.op = "get_issue"
    /\ last.key = Key_AB2
    /\ last.ok /\ last.some
    /\ last.markdown = "m2" /\ last.updated = "u1"
    /\ \E r \in issues : r.issue_key = Key_AB2 /\ r.access_count = 3

(***************************************************************************)
(* C8: every durable issues row has a ticket_index row with the same       *)
(* updated value, in every reachable state, including the state after      *)
(* upsert_issue fails at its second statement.                             *)
(***************************************************************************)
C8_IndexMatchesIssues ==
    \A r \in issues :
        \E x \in ticket_index :
            x.issue_key = r.issue_key /\ x.updated_at = r.updated

(***************************************************************************)
(* C9: upsert_issues_batch and upsert_issue_sidecars_batch are             *)
(* all-or-nothing: a call that returns an error leaves issues,             *)
(* ticket_index and issue_sidecars as they were; a call that succeeds      *)
(* applies every row and returns the batch length.  expect holds, per key, *)
(* the row of the last successful call that wrote the key (for a batch,    *)
(* the last row of the key in it).                                         *)
(***************************************************************************)
IssueRowApplied(tblIssues, tblIndex, row) ==
    /\ \E r \in tblIssues :
          r.issue_key = row[1] /\ r.markdown = row[2] /\ r.updated = row[3]
    /\ \E x \in tblIndex : x.issue_key = row[1] /\ x.updated_at = row[3]

SidecarRowApplied(tbl, row) ==
    \E r \in tbl :
        /\ r.issue_key = row[1]
        /\ r.comments_md = row[2]
        /\ r.comments_jsonl = row[3]
        /\ r.updated = row[4]

C9_BatchAllOrNothing ==
    [][ /\ (last'.op = "upsert_issues_batch" /\ last'.fail = 0)
             => /\ last'.ok
                /\ last'.count = last'.n
                /\ \A k \in IssueKeys :
                      expect'[k] # <<>> =>
                         IssueRowApplied(issues', ticket_index',
                                         <<k, expect'[k][1], expect'[k][2]>>)
        /\ (last'.op = "upsert_issue_sidecars_batch" /\ last'.fail = 0)
             => /\ last'.ok
                /\ last'.count = last'.n
                /\ \A rows \in SidecarBatches :
                      (Len(rows) = last'.n
                       /\ StoreUpsertSidecarsBatch(rows, 0))
                         => \A k \in KeysOf(rows) :
                               SidecarRowApplied(issue_sidecars',
                                                 LastRowFor(rows, k))
        /\ (/\ last'.op \in {"upsert_issues_batch",
                             "upsert_issue_sidecars_batch"}
            /\ last'.fail # 0)
             => /\ ~last'.ok
                /\ UNCHANGED <<issues, ticket_index, issue_sidecars>>
      ]_vars

\* A batch has failed after an earlier batch had written both keys.
C9_Witness ==
    /\ last.op = "upsert_issues_batch"
    /\ ~last.ok
    /\ last.n = 2
    /\ Cardinality(issues) = 2
    /\ Cardinality(issue_sidecars) = 2

(***************************************************************************)
(* C10: a successful upsert_issues_batch of rows with pairwise distinct    *)
(* keys leaves issues and ticket_index in the same observable state        *)
(* (markdown, updated, project, path per key) as successive upsert_issue   *)
(* calls on the same rows from the same store state.                       *)
(***************************************************************************)
Observable(db) ==
    [rows |-> { <<r.issue_key, r.markdown, r.updated>> : r \in db.issues },
     index |-> { <<x.issue_key, x.project, x.updated_at, x.path>> :
                    x \in db.ticket_index }]

\* upsert_issue called for rows i.. in turn, the clock advancing by one
\* second per call.
RECURSIVE SingleUpserts(_, _, _, _)
SingleUpserts(db, rows, i, t) ==
    IF i > Len(rows) THEN db
    ELSE SingleUpserts(
            persistent_upsert_issue(db, rows[i][1], rows[i][2], rows[i][3],
                                    t, 0).db,
            rows, i + 1, t + 1)

DistinctKeys(rows) ==
    \A i, j \in 1..Len(rows) : rows[i][1] = rows[j][1] => i = j

DistinctBatches == { rows \in IssueBatches : DistinctKeys(rows) }

C10_BatchEqualsSingles ==
    [][ (last'.op = "upsert_issues_batch" /\ last'.ok)
           => \A rows \in DistinctBatches :
                 (Len(rows) = last'.n /\ StoreUpsertIssuesBatch(rows, 0))
                    => Observable(Db') =
                          Observable(SingleUpserts(Db, rows, 1, now))
      ]_vars

\* A batch of two rows has written two keys for the first time.
C10_Witness ==
    /\ last.op = "upsert_issues_batch"
    /\ last.ok
    /\ last.count = 2
    /\ Cardinality(issues) = 2
    /\ \A r \in issues : r.access_count = 1

(***************************************************************************)
(* C11: the access_count increment of get_issue is advisory: when the row  *)
(* of the key is read and the access_count update fails, get_issue still   *)
(* returns the row (markdown, updated), not an error.                      *)
(***************************************************************************)
C11_CounterFailureKeepsRead ==
    (last.op = "get_issue" /\ HasRow(issues, last.key)) =>
       /\ last.ok
       /\ last.some
       /\ last.markdown = RowOf(issues, last.key).markdown
       /\ last.updated = RowOf(issues, last.key).updated

(***************************************************************************)
(* The sync engine (warmup.rs) and the upstream tracker it queries.        *)
(***************************************************************************)
Key_A1 == <<"A", "-", "1">>
Key_A2 == <<"A", "-", "2">>
Key_B1 == <<"B", "-", "1">>

\* The issues the upstream tracker may hold.
UpstreamKeys == {Key_A1, Key_A2, Key_B1}

\* Upstream updated stamps are 1..MaxStamp; a sync pass takes a budget of
\* 0..MaxBudget.
MaxStamp == 3
MaxBudget == 2

\* budget.min(100)
MaxPageSize == 100

Min(a, b) == IF a < b THEN a ELSE b

\* usize::saturating_sub
saturating_sub(a, b) == IF a > b THEN a - b ELSE 0

\* The byte of a character of an issue key (str::cmp compares bytes).
Byte(c) ==
    CASE c = "-" -> 45
      [] c = "1" -> 49
      [] c = "2" -> 50
      [] c = "3" -> 51
      [] c = "A" -> 65
      [] c = "B" -> 66
      [] c = "X" -> 88

\* a.cmp(&b) = Less on strings
RECURSIVE StrLess(_, _)
StrLess(a, b) ==
    IF a = <<>> THEN b # <<>>
    ELSE IF b = <<>> THEN FALSE
    ELSE IF Byte(Head(a)) # Byte(Head(b)) THEN Byte(Head(a)) < Byte(Head(b))
    ELSE StrLess(Tail(a), Tail(b))

\* Insert ref into a sequence sorted by key, after the refs that are not
\* greater (sort_by is stable).
RECURSIVE InsertByKey(_, _)
InsertByKey(sorted, ref) ==
    IF sorted = <<>> THEN <<ref>>
    ELSE IF StrLess(ref.key, Head(sorted).key)
    THEN <<ref>> \o sorted
    ELSE <<Head(sorted)>> \o InsertByKey(Tail(sorted), ref)

\* merged.sort_by(|a, b| a.key.cmp(&b.key))
RECURSIVE SortByKey(_)
SortByKey(refs) ==
    IF refs = <<>> THEN <<>>
    ELSE InsertByKey(SortByKey(SubSeq(refs, 1, Len(refs) - 1)),
                     refs[Len(refs)])

\* The merge loop without the replacement of a matching key: every new ref
\* is pushed.
RECURSIVE MergeRefsPushAll(_, _)
MergeRefsPushAll(merged, latest_refs) ==
    IF latest_refs = <<>> THEN merged
    ELSE MergeRefsPushAll(Append(merged, Head(latest_refs)), Tail(latest_refs))

\* for new_ref in latest_refs: replace updated of the first ref of the same
\* key, else push.
RECURSIVE MergeRefs(_, _)
MergeRefs(merged, latest_refs) ==
    IF latest_refs = <<>> THEN merged
    ELSE LET new_ref == Head(latest_refs)
             hits == { j \in 1..Len(merged) : merged[j].key = new_ref.key }
         IN MergeRefs(
               IF hits = {} THEN Append(merged, new_ref)
               ELSE LET j == CHOOSE x \in hits : \A y \in hits : x <= y
                    IN [merged EXCEPT ![j].updated = new_ref.updated],
               Tail(latest_refs))

(***************************************************************************)
(* The upstream client (jira.rs is not part of the sources; the contract   *)
(* of search_issues_bulk is the one the specification gives).              *)
(***************************************************************************)
\* The base query of a workspace is a filter and an optional order clause;
\* the filter "project = P" matches the issues whose key starts with P.
Orders == {"desc", "asc"}

BaseJql(filter, order) == [filter |-> filter, order |-> order]

\* split_jql_order_by on a base query: its filter and Option<order clause>.
SplitOrder(base_jql) == <<base_jql.filter, base_jql.order>>

\* The incremental query without its "updated >" condition.
IncrementalJqlNoSince(base_filter, base_order, since) ==
    [filter |-> base_filter, since |-> {},
     order |-> IF base_order = {} THEN {"desc"} ELSE base_order]

\* "({filter}) AND updated > \"{since}\" {order_clause}", the order clause
\* being ORDER BY updated DESC when the base has none.
IncrementalJql(base_filter, base_order, since) ==
    [filter |-> base_filter, since |-> {since},
     order |-> IF base_order = {} THEN {"desc"} ELSE base_order]

\* base_jql.trim()
InitialJql(base_jql) ==
    [filter |-> base_jql.filter, since |-> {}, order |-> base_jql.order]

\* The issues of the tracker that a query matches.
Matching(up, jql) ==
    { k \in UpstreamKeys :
        /\ up[k] > 0
        /\ Head(k) = jql.filter
        /\ \A s \in jql.since : up[k] > s }

Rank(perm, k) == CHOOSE i \in 1..Len(perm) : perm[i] = k

\* Whether the tracker lists issue a before issue b: by the order clause,
\* and in an order of its own (perm) where the clause does not decide.
Before(a, b, up, order, perm) ==
    IF order = {"desc"} /\ up[a] # up[b] THEN up[a] > up[b]
    ELSE IF order = {"asc"} /\ up[a] # up[b] THEN up[a] < up[b]
    ELSE Rank(perm, a) < Rank(perm, b)

RECURSIVE Ordered(_, _, _, _)
Ordered(S, up, order, perm) ==
    IF S = {} THEN <<>>
    ELSE LET first == CHOOSE k \in S :
                         \A o \in S \ {k} : Before(k, o, up, order, perm)
         IN <<[key |-> first, updated |-> up[first]]>>
               \o Ordered(S \ {first}, up, order, perm)

\* search_issues_bulk(jql, page_size): Err, or the first page_size issues
\* the query matches.
search_issues_bulk(up, jql, page_size, perm, fail) ==
    IF fail THEN [ok |-> FALSE, issues |-> <<>>]
    ELSE LET all == Ordered(Matching(up, jql), up, jql.order, perm)
         IN [ok |-> TRUE, issues |-> SubSeq(all, 1, Min(Len(all), page_size))]

\* render_issue_markdown and render_issue_comments_markdown (render.rs is
\* not part of the sources): the text is a function of the issue.
render_issue_markdown(issue) == <<"md", issue.key, issue.updated>>

render_issue_comments_markdown(issue) == <<"comments", issue.key, issue.updated>>

(***************************************************************************)
(* The cache calls the sync engine makes.  An engine state e holds the     *)
(* database (db), the sync_cursor table (cur), the two memory maps (mem,   *)
(* pi), the SyncResult (result) and, per workspace queried, what the pass  *)
(* saw (log).                                                              *)
(***************************************************************************)
\* PersistentCache::get_sync_cursor: Ok(Option<String>) or Err.
persistent_get_sync_cursor(cur, project, fail) ==
    IF fail THEN [ok |-> FALSE, cursor |-> {}]
    ELSE [ok |-> TRUE, cursor |-> Lookup(cur, project)]

\* set_sync_cursor keeping only the row it writes.
persistent_set_sync_cursor_only_row(cur, project, stamp, fail) ==
    IF fail THEN [ok |-> FALSE, cur |-> cur]
    ELSE [ok |-> TRUE, cur |-> Insert(<<>>, project, stamp)]

\* PersistentCache::set_sync_cursor: INSERT ... ON CONFLICT DO UPDATE.
persistent_set_sync_cursor(cur, project, stamp, fail) ==
    IF fail THEN [ok |-> FALSE, cur |-> cur]
    ELSE [ok |-> TRUE, cur |-> Insert(cur, project, stamp)]

\* PersistentCache::clear_sync_cursor: DELETE FROM sync_cursor WHERE ...
persistent_clear_sync_cursor(cur, project, fail) ==
    IF fail THEN [ok |-> FALSE, cur |-> cur]
    ELSE [ok |-> TRUE, cur |-> [p \in DOMAIN cur \ {project} |-> cur[p]]]

\* InMemoryCache::has_persistence
has_persistence(is_persistent) == is_persistent

\* InMemoryCache::get_sync_cursor: .ok().flatten()
get_sync_cursor(cur, project, fail) ==
    persistent_get_sync_cursor(cur, project, fail).cursor

\* InMemoryCache::set_sync_cursor: the result is dropped.
set_sync_cursor(cur, project, stamp, fail) ==
    persistent_set_sync_cursor(cur, project, stamp, fail).cur

\* InMemoryCache::clear_sync_cursor: the result is dropped.
clear_sync_cursor(cur, project, fail) ==
    persistent_clear_sync_cursor(cur, project, fail).cur

\* InMemoryCache::get_project_issues_snapshot at time t:
\* Option<ProjectIssuesSnapshot>.
get_project_issues_snapshot(pi, project, t) ==
    { [issues |-> entry.value,
       is_stale |-> t - entry.cached_at >= entry.ttl] :
        entry \in Lookup(pi, project) }

\* .map(|s| s.issues).unwrap_or_default() on a snapshot, as the engine and
\* JiraFuseFs::project_issues read a listing.
SnapshotIssues(snapshot) ==
    IF snapshot = {} THEN <<>> ELSE (CHOOSE s \in snapshot : TRUE).issues

\* upsert_project_issues keeping the cached_at of the entry it replaces.
upsert_project_issues_keeps_time(pi, project, refs, t, ttl) ==
    Insert(pi, project,
           [value |-> refs,
            cached_at |-> IF project \in DOMAIN pi THEN pi[project].cached_at
                          ELSE t,
            ttl |-> ttl, source_updated |-> None])

\* InMemoryCache::upsert_project_issues at time t, ttl being project_ttl.
upsert_project_issues(pi, project, refs, t, ttl) ==
    Insert(pi, project, [value |-> refs, cached_at |-> t, ttl |-> ttl,
                         source_updated |-> None])

\* The memory half of InMemoryCache::upsert_issues_batch.
RECURSIVE InsertRows(_, _, _, _)
InsertRows(mem, rows, t, ttl) ==
    IF rows = <<>> THEN mem
    ELSE InsertRows(Insert(mem, Head(rows)[1],
                           CacheEntry(Head(rows)[2], t, ttl, Head(rows)[3])),
                    Tail(rows), t, ttl)

\* upsert_issues_batch writing the durable store first and giving up when
\* that fails.
upsert_issues_batch_durable_first(e, rows, t, ttl, fail) ==
    IF persistent_upsert_issues_batch(e.db, rows, t, fail).ok
    THEN [e EXCEPT !.mem = InsertRows(e.mem, rows, t, ttl),
                   !.db = persistent_upsert_issues_batch(e.db, rows, t,
                                                         fail).db,
                   !.count = Len(rows)]
    ELSE [e EXCEPT !.count = 0]

\* InMemoryCache::upsert_issues_batch: every row goes to memory, then the
\* batch goes to the durable store and its result is dropped; the count is
\* the number of rows.
upsert_issues_batch(e, rows, t, ttl, fail) ==
    [e EXCEPT !.mem = InsertRows(e.mem, rows, t, ttl),
              !.db = persistent_upsert_issues_batch(e.db, rows, t, fail).db,
              !.count = Len(rows)]

\* InMemoryCache::upsert_issue_sidecars_batch: .unwrap_or(0)
upsert_issue_sidecars_batch(e, rows, t, fail) ==
    [e EXCEPT !.db = persistent_upsert_issue_sidecars_batch(e.db, rows, t,
                                                            fail).db]

\* The statements of the durable store that fail during a pass: while
\* workspace number at is processed (0: none), the cursor read (get), the
\* statement of the issue batch (issues, 0: none), the statement of the
\* sidecar batch (sidecars, 0: none) and the cursor write (set).
NoFaults == [at |-> 0, get |-> FALSE, issues |-> 0, sidecars |-> 0,
             set |-> FALSE]

\* to_cache: (key, rendered markdown, updated) of the first count issues.
ToCache(page, count) ==
    [j \in 1..count |->
        <<page[j].key, render_issue_markdown(page[j]), page[j].updated>>]

\* sidecars: (key, rendered comments, updated) of the first count issues;
\* the store's row has a comments_jsonl text too, which the engine leaves
\* empty.
ToSidecars(page, count) ==
    [j \in 1..count |->
        <<page[j].key, render_issue_comments_markdown(page[j]), <<>>,
          page[j].updated>>]

\* issues.len().min(remaining_budget), without the budget.
CountWholePage(len, budget, issues_cached) == len

\* issues.len().min(budget.saturating_sub(result.issues_cached))
Count(len, budget, issues_cached) ==
    Min(len, saturating_sub(budget, issues_cached))

\* The Err arm of the upstream request, ending the pass.
OnUpstreamErrAborts(e, name) ==
    [e EXCEPT !.result.errors = Append(@, name), !.done = TRUE]

\* Err(err) => result.errors.push(msg)
OnUpstreamErr(e, name) ==
    [e EXCEPT !.result.errors = Append(@, name)]

\* if result.issues_cached >= budget { break; }, never taken.
BudgetSpentNever(issues_cached, budget) == FALSE

BudgetSpent(issues_cached, budget) == issues_cached >= budget

\* The cursor written after a batch: the updated of the last issue of the
\* page instead of the first.
LatestOfLast(page) == page[Len(page)].updated

\* issues.first().and_then(|i| i.updated.as_ref())
Latest(page) == page[1].updated

\* The Ok arm of the upstream request for workspace w (number i), from the
\* issue list to the cursor.
OnPage(e, i, w, cursor, page, in) ==
    LET f == IF in.faults.at = i THEN in.faults ELSE NoFaults
        latest_refs == [j \in 1..Len(page) |->
                           [key |-> page[j].key, updated |-> page[j].updated]]
        e1 == [e EXCEPT !.pi =
                  IF cursor = {}
                  THEN upsert_project_issues(e.pi, w.name, latest_refs, in.t,
                                             in.project_ttl)
                  ELSE upsert_project_issues(e.pi, w.name,
                          SortByKey(MergeRefs(
                              SnapshotIssues(get_project_issues_snapshot(
                                  e.pi, w.name, in.t)),
                              latest_refs)),
                          in.t, in.project_ttl)]
    IN IF page = <<>>
       THEN [e1 EXCEPT !.result.issues_skipped = @ + 1]
       ELSE LET count == Count(Len(page), in.budget, e.result.issues_cached)
                e2 == upsert_issues_batch(e1, ToCache(page, count), in.t,
                                          in.ttl, f.issues)
                e3 == upsert_issue_sidecars_batch(e2, ToSidecars(page, count),
                                                  in.t, f.sidecars)
                e4 == [e3 EXCEPT
                         !.result.issues_cached = @ + e2.count,
                         !.cur = set_sync_cursor(e3.cur, w.name, Latest(page),
                                                 f.set)]
            IN [e4 EXCEPT !.done =
                   BudgetSpent(e4.result.issues_cached, in.budget)]

\* One iteration of "for (workspace, base_jql) in workspaces".
Workspace(e, i, in) ==
    LET w == in.workspaces[i]
        f == IF in.faults.at = i THEN in.faults ELSE NoFaults
        cursor == IF in.force_full THEN {}
                  ELSE get_sync_cursor(e.cur, w.name, f.get)
        split == SplitOrder(w.base_jql)
        jql == IF cursor = {} THEN InitialJql(w.base_jql)
               ELSE IncrementalJql(split[1], split[2],
                                   CHOOSE s \in cursor : TRUE)
        page_size == Min(in.budget, MaxPageSize)
        r == search_issues_bulk(in.upstream, jql, page_size, in.perm,
                                i \in in.fails)
        seen == [workspace |-> w.name, ok |-> r.ok, cursor |-> cursor,
                 page |-> r.issues, before |-> e.result.issues_cached]
        e0 == [e EXCEPT !.log = Append(@, seen)]
    IN IF r.ok THEN OnPage(e0, i, w, cursor, r.issues, in)
       ELSE OnUpstreamErr(e0, w.name)

RECURSIVE SyncLoop(_, _, _)
SyncLoop(e, i, in) ==
    IF i > Len(in.workspaces) \/ e.done THEN e
    ELSE SyncLoop(Workspace(e, i, in), i + 1, in)

EmptyResult == [issues_cached |-> 0, issues_skipped |-> 0, errors |-> <<>>]

\* sync_issues(jira, cache, workspaces, budget, force_full) on engine state
\* e; is_persistent tells whether the cache has a durable store.
sync_issues(e, in, is_persistent) ==
    IF in.budget = 0 THEN e
    ELSE IF ~has_persistence(is_persistent)
    THEN [e EXCEPT !.result.errors = Append(@, "cache.db_path")]
    ELSE SyncLoop(e, 1, in)

Engine == [db |-> Db, cur |-> sync_cursor, mem |-> issue_markdown,
           pi |-> project_issues, result |-> EmptyResult, log |-> <<>>,
           done |-> FALSE, count |-> 0]

\* No row of the database has been written more than MaxAccess times.
WithinAccess(db) == \A r \in db.issues : r.access_count <= MaxAccess

\* One call of sync_issues with the given budget and force_full; the
\* upstream requests of the workspaces numbered in fails return Err, the
\* tracker lists issues in the order perm where the query leaves it open.
\* A pass takes one unit of the clock.
SyncPass(budget, full, fails, perm, faults) ==
    /\ now < MaxTime
    /\ \E e \in {sync_issues(Engine,
                          [workspaces |-> workspaces, budget |-> budget,
                           force_full |-> full, upstream |-> upstream,
                           perm |-> perm, fails |-> fails, faults |-> faults,
                           t |-> now, ttl |-> issue_ttl,
                           project_ttl |-> project_ttl],
                          persistent)} :
        /\ now' = now + 1
        /\ WithinAccess(e.db)
        /\ SetDb(e.db)
        /\ sync_cursor' = e.cur
        /\ issue_markdown' = e.mem
        /\ project_issues' = e.pi
        /\ last' = [NoCall EXCEPT !.op = "sync_issues", !.budget = budget,
                                  !.force_full = full, !.result = e.result,
                                  !.log = e.log]
        /\ UNCHANGED <<syncVars, fsVars, expect, persistent, issue_ttl,
                       project_ttl, stale_served, threadVars, workspaces,
                       upstream>>

\* The newest updated stamp of the tracker (0: it holds no issue).
Newest(up) == CHOOSE m \in 0..MaxStamp :
                 /\ \A k \in UpstreamKeys : up[k] <= m
                 /\ m = 0 \/ \E k \in UpstreamKeys : up[k] = m

\* An issue is created or edited upstream: its updated becomes a stamp
\* newer than every other.
UpstreamChange(k) ==
    /\ Newest(upstream) < MaxStamp
    /\ upstream' = [upstream EXCEPT ![k] = Newest(upstream) + 1]
    /\ last' = [NoCall EXCEPT !.op = "upstream"]
    /\ UNCHANGED <<syncVars, fsVars, now, storeVars, cacheVars, sync_cursor,
                   project_issues, workspaces>>

(***************************************************************************)
(* SpecSync: sync passes over two workspaces while the tracker changes,    *)
(* every statement of the durable store succeeding.                        *)
(***************************************************************************)
\* Workspace B comes first and holds one issue from the start, which is
\* never edited, so that a pass reaches workspace A with part of its budget
\* spent; the issues of workspace A are created and edited.
EditedKeys == {Key_A1, Key_A2}

WorkspaceList(order) ==
    << [name |-> "B", base_jql |-> BaseJql("B", order)],
       [name |-> "A", base_jql |-> BaseJql("A", order)] >>

Perms == { <<Key_A1, Key_A2, Key_B1>>, <<Key_A2, Key_A1, Key_B1>> }

\* The project_ttl of the cache: a listing outlives the pass that wrote it.
ListingTtl == 2

InitSync ==
    /\ SyncInit
    /\ StoreInit
    /\ issue_markdown = <<>>
    /\ project_issues = <<>>
    /\ persistent \in BOOLEAN
    /\ issue_ttl = 1
    /\ project_ttl = ListingTtl
    /\ issue_markdown_locked = FALSE
    /\ frame = <<>>
    /\ stale_served = 0
    /\ \E order \in {{}} \cup { {o} : o \in Orders } :
          workspaces = WorkspaceList(order)
    /\ upstream = [k \in UpstreamKeys |-> IF k \in EditedKeys THEN 0 ELSE 1]
    /\ last = NoCall
    /\ now = 0

NextSync ==
    \/ \E budget \in 0..MaxBudget, full \in BOOLEAN,
          fails \in SUBSET {1, 2}, perm \in Perms :
          SyncPass(budget, full, fails, perm, NoFaults)
    \/ \E k \in EditedKeys : UpstreamChange(k)

SpecSync == InitSync /\ [][NextSync]_vars

(***************************************************************************)
(* Claims about the sync engine.                                           *)
(***************************************************************************)
\* The step is one call of sync_issues.
IsPass == last'.op = "sync_issues"

\* The entries of the pass's log for the workspaces whose upstream request
\* succeeded and returned at least one issue.
Returned(log) == { j \in DOMAIN log : log[j].ok /\ log[j].page # <<>> }

\* For every workspace that had a cursor before the step: it still has one,
\* not smaller, and a greater one if the pass got an issue for it.
CursorAdvances ==
    \A w \in DOMAIN sync_cursor :
        /\ w \in DOMAIN sync_cursor'
        /\ sync_cursor'[w] >= sync_cursor[w]
        /\ (\E j \in Returned(last'.log) : last'.log[j].workspace = w)
              => sync_cursor'[w] > sync_cursor[w]

\* C12 as stated: after every successful sync pass over a workspace that
\* returned at least one issue, the workspace's stored cursor is strictly
\* greater than the cursor stored before the pass, and no pass moves a
\* cursor backward.
C12_CursorStrictlyAdvances == [][IsPass => CursorAdvances]_vars

\* C12, amended: the same of every pass that does not force a full sync.  A
\* forced pass queries without the cursor: it stores the same cursor again
\* when nothing changed upstream and an older one when the tracker lists an
\* older issue first.
C12_IncrementalCursorAdvances ==
    [][(IsPass /\ ~last'.force_full) => CursorAdvances]_vars

\* An incremental pass got an issue for a workspace and moved its cursor
\* forward.
C12_Witness ==
    /\ last.op = "sync_issues"
    /\ ~last.force_full
    /\ \E j \in Returned(last.log) :
          /\ last.log[j].cursor # {}
          /\ \A c \in last.log[j].cursor :
                sync_cursor[last.log[j].workspace] > c

\* The call recorded in l was a pass that queried every workspace and got
\* an answer from the upstream for each.
CompletePass(l) ==
    /\ l.op = "sync_issues"
    /\ Len(l.log) = Len(workspaces)
    /\ \A j \in DOMAIN l.log : l.log[j].ok

\* The step is a pass that directly follows a complete pass: nothing
\* changed upstream in between.
PassAfterCompletePass == CompletePass(last) /\ IsPass

\* The pass of the step stores no cursor and caches no issue.
NothingSynced ==
    /\ sync_cursor' = sync_cursor
    /\ last'.result.issues_cached = 0

\* Every workspace's base query orders by updated, newest first.
NewestFirst ==
    \A i \in DOMAIN workspaces : workspaces[i].base_jql.order = {"desc"}

KeysOfWorkspace(w) == { k \in UpstreamKeys : Head(k) = w }

\* Nothing kept for workspace w changes in the step: its cursor, its issue
\* list, and the rows and entries of its issues.
WorkspaceUntouched(w) ==
    /\ Lookup(sync_cursor', w) = Lookup(sync_cursor, w)
    /\ Lookup(project_issues', w) = Lookup(project_issues, w)
    /\ \A k \in KeysOfWorkspace(w) :
          /\ Lookup(issue_markdown', k) = Lookup(issue_markdown, k)
          /\ { r \in issues' : r.issue_key = k }
                = { r \in issues : r.issue_key = k }
          /\ { r \in issue_sidecars' : r.issue_key = k }
                = { r \in issue_sidecars : r.issue_key = k }
          /\ { r \in ticket_index' : r.issue_key = k }
                = { r \in ticket_index : r.issue_key = k }

\* C14: a failing upstream request for one workspace never aborts the
\* pass: the error is appended to SyncResult.errors (one per failed
\* request, in workspace order), the cursor, issue list and cached issues
\* of that workspace are unchanged, and every later workspace is still
\* queried unless the budget is spent.
C14_UpstreamErrorIsIsolated ==
    [][IsPass =>
        LET log == last'.log
            failed == { j \in DOMAIN log : ~log[j].ok }
        IN /\ persistent =>
                 last'.result.errors =
                    SelectSeq([j \in DOMAIN log |->
                                  IF log[j].ok THEN "" ELSE log[j].workspace],
                              LAMBDA x : x # "")
           /\ \A j \in failed : WorkspaceUntouched(log[j].workspace)
           /\ (failed # {} /\ last'.result.issues_cached < last'.budget)
                 => Len(log) = Len(workspaces)
       ]_vars

\* The request of the first workspace failed and the pass went on to cache
\* an issue of the second.
C14_Witness ==
    /\ last.op = "sync_issues"
    /\ Len(last.log) = 2
    /\ ~last.log[1].ok
    /\ last.log[2].ok
    /\ last.log[2].page # <<>>
    /\ last.result.errors = <<last.log[1].workspace>>
    /\ last.result.issues_cached >= 1
    /\ last.log[1].workspace \in DOMAIN sync_cursor

\* The issues of workspace w whose durable row the step wrote (every write
\* of a row counts in access_count).
Upserted(w) ==
    { k \in KeysOfWorkspace(w) :
        { r \in issues' : r.issue_key = k } # { r \in issues : r.issue_key = k } }

\* min(page length, budget - issues cached before), worked out by hand.
Share(entry, budget) ==
    IF ~entry.ok \/ Len(entry.page) = 0 THEN 0
    ELSE IF Len(entry.page) <= budget - entry.before THEN Len(entry.page)
    ELSE budget - entry.before

\* C15: in every pass the issues upserted for a workspace are the first
\* min(page length, budget - issues cached so far) issues of its page, the
\* counts add up to SyncResult.issues_cached, which never exceeds the
\* budget, and no workspace is queried once issues_cached >= budget.
C15_BudgetBound ==
    [][IsPass =>
        LET log == last'.log
            budget == last'.budget
        IN /\ \A j \in DOMAIN log :
                 /\ log[j].before < budget
                 /\ log[j].before =
                       IF j = 1 THEN 0
                       ELSE log[j - 1].before + Share(log[j - 1], budget)
                 /\ Upserted(log[j].workspace) =
                       { log[j].page[i].key : i \in 1..Share(log[j], budget) }
           /\ last'.result.issues_cached =
                 IF log = <<>> THEN 0
                 ELSE log[Len(log)].before + Share(log[Len(log)], budget)
           /\ last'.result.issues_cached <= budget
           /\ \A i \in DOMAIN workspaces :
                 i > Len(log) => Upserted(workspaces[i].name) = {}
       ]_vars

\* A pass cached the one issue of the first workspace and then, the page of
\* the second holding two issues, only the first of them.
C15_Witness ==
    /\ last.op = "sync_issues"
    /\ last.budget = 2
    /\ Len(last.log) = 2
    /\ last.log[2].before = 1
    /\ Len(last.log[2].page) = 2
    /\ last.result.issues_cached = 2
    /\ HasRow(issues, last.log[2].page[1].key)
    /\ ~HasRow(issues, last.log[2].page[2].key)

(***************************************************************************)
(* SpecSyncFaults: sync passes in which one statement of the durable store *)
(* may fail while one workspace is processed.                              *)
(***************************************************************************)
\* One failing statement: the cursor read, a statement of the issue batch
\* (up to its COMMIT), a statement of the sidecar batch, or the cursor
\* write.
OneFault(at) ==
    {[NoFaults EXCEPT !.at = at, !.get = TRUE]}
       \cup { [NoFaults EXCEPT !.at = at, !.issues = f] :
                 f \in 1..(2 * MaxBudget + 1) }
       \cup { [NoFaults EXCEPT !.at = at, !.sidecars = f] :
                 f \in 1..(MaxBudget + 1) }
       \cup {[NoFaults EXCEPT !.at = at, !.set = TRUE]}

Faults == {NoFaults} \cup UNION { OneFault(at) : at \in {1, 2} }

NextSyncFaults ==
    \/ \E budget \in 0..MaxBudget, full \in BOOLEAN, faults \in Faults,
          perm \in Perms :
          SyncPass(budget, full, {}, perm, faults)
    \/ \E k \in EditedKeys : UpstreamChange(k)

SpecSyncFaults == InitSync /\ [][NextSyncFaults]_vars

\* C16: every issue row a sync pass wrote has an issue_sidecars row of the
\* same key with the same updated value, also after a pass in which a batch
\* write failed.
C16_SidecarForEveryIssue ==
    \A r \in issues :
        \E s \in issue_sidecars :
            s.issue_key = r.issue_key /\ s.updated = r.updated

(***************************************************************************)
(* SpecFs: the filesystem's open and write handlers and the two manual     *)
(* triggers, with any thread calling check_and_clear at any time.          *)
(***************************************************************************)
\* The inodes lookup, readdir and getattr give to projects and issue files
\* are hashes of their names; two of them, and one that no node has.
INO_OF_PROJECT == 20001
INO_OF_ISSUE == 20002
INO_UNKNOWN == 20003

DynamicNodes == { <<INO_OF_PROJECT, "Project">>, <<INO_OF_ISSUE, "Issue">> }

OpenInodes == {ROOT, INO_SYNC_META, INO_LAST_SYNC, INO_SECONDS_TO_NEXT,
               INO_MANUAL_REFRESH, INO_FULL_REFRESH, INO_LAST_FULL_SYNC,
               INO_PROJECTS, INO_TICKETS, INO_TICKETS_INDEX,
               INO_OF_PROJECT, INO_OF_ISSUE, INO_UNKNOWN}

OpenAccModes == {"O_RDONLY", "O_WRONLY", "O_RDWR"}

\* JiraFuseFs::node_for_inode: Option<Node>
node_for_inode(table, ino) ==
    IF ino = INO_SYNC_META THEN {"SyncMeta"}
    ELSE IF ino = INO_PROJECTS THEN {"Projects"}
    ELSE IF ino = INO_TICKETS THEN {"Tickets"}
    ELSE IF ino \in {INO_LAST_SYNC, INO_LAST_FULL_SYNC, INO_SECONDS_TO_NEXT,
                     INO_MANUAL_REFRESH, INO_FULL_REFRESH}
    THEN {"SyncMetaFile"}
    ELSE IF ino = INO_TICKETS_INDEX THEN {"TicketsIndex"}
    ELSE Lookup(table, ino)

\* The open handler without its access-mode check.
OpenReplyAnyMode(table, ino, acc_mode) ==
    LET node == node_for_inode(table, ino)
    IN IF node = {} THEN [kind |-> "error", errno |-> "ENOENT"]
       ELSE IF node \subseteq {"Issue", "SyncMetaFile", "TicketsIndex"}
       THEN [kind |-> "opened"]
       ELSE [kind |-> "error", errno |-> "EISDIR"]

\* What Filesystem::open replies.
OpenReply(table, ino, acc_mode) ==
    LET is_writable_file == ino = INO_MANUAL_REFRESH \/ ino = INO_FULL_REFRESH
        node == node_for_inode(table, ino)
    IN IF acc_mode # "O_RDONLY" /\ ~is_writable_file
       THEN [kind |-> "error", errno |-> "EROFS"]
       ELSE IF node = {} THEN [kind |-> "error", errno |-> "ENOENT"]
       ELSE IF node \subseteq {"Issue", "SyncMetaFile", "TicketsIndex"}
       THEN [kind |-> "opened"]
       ELSE [kind |-> "error", errno |-> "EISDIR"]

\* What the handlers of SpecFs leave alone.
fsFrame == <<last_sync, last_full_sync, sync_in_progress,
             initial_sync_started, pc, force_full, wins, lost, now,
             storeVars, cacheVars, last, engineVars>>

\* Filesystem::open
Open(ino, acc_mode) ==
    /\ reply' = OpenReply(nodes, ino, acc_mode)
    /\ UNCHANGED <<manual_trigger, manual_full_trigger, fsVars, fsFrame>>

\* upsert_node, as lookup, readdir and getattr call it.
UpsertNode(ino, node) ==
    /\ nodes' = Insert(nodes, ino, node)
    /\ UNCHANGED <<manual_trigger, manual_full_trigger, reply, pending,
                   cleared, fsFrame>>

\* Filesystem::write, counting the trigger call it makes.
FsWrite(ino, offset, data) ==
    /\ WriteCall(ino, offset, data)
    /\ pending' =
          [f \in DOMAIN pending |->
              IF f = WriteOutcome(ino, offset, data).arm
              THEN Min(pending[f] + 1, MaxPending) ELSE pending[f]]
    /\ UNCHANGED <<nodes, cleared, fsFrame>>

\* SyncState::check_and_clear_manual_trigger, called by any thread.
CheckAndClearManualTrigger ==
    \E r \in {Swap(manual_trigger, FALSE)} :
        /\ manual_trigger' = r.val
        /\ cleared' = [flag |-> "manual", value |-> r.prev,
                       calls |-> pending.manual]
        /\ pending' = [pending EXCEPT !.manual = 0]
        /\ UNCHANGED <<manual_full_trigger, reply, nodes, fsFrame>>

\* SyncState::check_and_clear_manual_full_trigger, called by any thread.
CheckAndClearManualFullTrigger ==
    \E r \in {Swap(manual_full_trigger, FALSE)} :
        /\ manual_full_trigger' = r.val
        /\ cleared' = [flag |-> "full", value |-> r.prev,
                       calls |-> pending.full]
        /\ pending' = [pending EXCEPT !.full = 0]
        /\ UNCHANGED <<manual_trigger, reply, nodes, fsFrame>>

InitFs ==
    /\ SyncInit
    /\ StoreInit
    /\ CacheInit
    /\ TrackerInit
    /\ last = NoCall
    /\ now = 0

NextFs ==
    \/ \E ino \in WriteInodes, offset \in {0, 1}, data \in WriteData :
          FsWrite(ino, offset, data)
    \/ \E ino \in OpenInodes, acc_mode \in OpenAccModes : Open(ino, acc_mode)
    \/ \E n \in DynamicNodes : UpsertNode(n[1], n[2])
    \/ CheckAndClearManualTrigger
    \/ CheckAndClearManualFullTrigger

SpecFs == InitFs /\ [][NextFs]_vars

(***************************************************************************)
(* Claims about the control files and the triggers.                        *)
(***************************************************************************)
\* The written bytes that, lowercased and trimmed, are "1" or "true".
ArmingData == { <<"1">>, <<"t", "r", "u", "e", "\n">>,
                <<" ", "T", "r", "U", "e">> }

IsControlFile(ino) == ino = INO_MANUAL_REFRESH \/ ino = INO_FULL_REFRESH

IsArmingWrite(ino, offset, data) ==
    IsControlFile(ino) /\ offset = 0 /\ data \in ArmingData

\* C17: a write at offset 0 to a control file whose lowercased, trimmed
\* content is "1" or "true" arms the trigger of that file and leaves the
\* other as it was, and replies the number of bytes written; the armed flag
\* stays set until a check_and_clear of that trigger, which returns true.
C17_ArmingWrite ==
    [][/\ \A ino \in WriteInodes, offset \in {0, 1}, data \in WriteData :
             (FsWrite(ino, offset, data) /\ IsArmingWrite(ino, offset, data))
                => /\ reply' = [kind |-> "written", size |-> Len(data)]
                   /\ IF ino = INO_FULL_REFRESH
                      THEN /\ manual_full_trigger'
                           /\ manual_trigger' = manual_trigger
                      ELSE /\ manual_trigger'
                           /\ manual_full_trigger' = manual_full_trigger
       /\ (manual_trigger /\ ~manual_trigger')
             => (CheckAndClearManualTrigger /\ cleared'.value)
       /\ (manual_full_trigger /\ ~manual_full_trigger')
             => (CheckAndClearManualFullTrigger /\ cleared'.value)
      ]_vars

\* Five bytes were written to full_refresh and armed the full trigger
\* alone.
C17_Witness ==
    /\ reply = [kind |-> "written", size |-> 5]
    /\ manual_full_trigger
    /\ ~manual_trigger
    /\ pending = [manual |-> 0, full |-> 1]

\* C18: a write to an inode that is no control file replies EROFS, a write
\* to a control file at an offset other than 0 replies EINVAL, a write at
\* offset 0 of any other content replies the byte count; none of them
\* changes a trigger flag, the sync-in-progress flag or the cache.
C18_IgnoredWrite ==
    [][\A ino \in WriteInodes, offset \in {0, 1}, data \in WriteData :
          (FsWrite(ino, offset, data) /\ ~IsArmingWrite(ino, offset, data))
             => /\ reply' =
                      IF ~IsControlFile(ino)
                      THEN [kind |-> "error", errno |-> "EROFS"]
                      ELSE IF offset # 0
                      THEN [kind |-> "error", errno |-> "EINVAL"]
                      ELSE [kind |-> "written", size |-> Len(data)]
                /\ UNCHANGED <<manual_trigger, manual_full_trigger,
                               sync_in_progress, cacheVars, storeVars,
                               sync_cursor, project_issues>>
      ]_vars

\* A write was rejected with EINVAL and no trigger has ever been armed.
C18_Witness ==
    /\ reply = [kind |-> "error", errno |-> "EINVAL"]
    /\ ~manual_trigger
    /\ ~manual_full_trigger
    /\ pending = [manual |-> 0, full |-> 0]
    /\ cleared.flag = "none"

\* The inodes that are directories, and those no node stands for.
IsDirectory(ino) ==
    \/ ino \in {ROOT, INO_SYNC_META, INO_PROJECTS, INO_TICKETS}
    \/ ino = INO_OF_PROJECT /\ ino \in DOMAIN nodes

IsUnknown(ino) ==
    ino \in {INO_OF_PROJECT, INO_OF_ISSUE, INO_UNKNOWN} \ DOMAIN nodes

\* C19: an open with an access mode other than read-only replies EROFS on
\* every inode except the two control files; an open that is permitted
\* replies EISDIR on a directory and ENOENT on an unknown inode, and opens
\* any other; no open changes the cache or the sync state.
C19_Open ==
    [][\A ino \in OpenInodes, acc_mode \in OpenAccModes :
          Open(ino, acc_mode)
             => /\ reply' =
                      IF acc_mode # "O_RDONLY" /\ ~IsControlFile(ino)
                      THEN [kind |-> "error", errno |-> "EROFS"]
                      ELSE IF IsDirectory(ino)
                      THEN [kind |-> "error", errno |-> "EISDIR"]
                      ELSE IF IsUnknown(ino)
                      THEN [kind |-> "error", errno |-> "ENOENT"]
                      ELSE [kind |-> "opened"]
                /\ UNCHANGED <<last_sync, last_full_sync, manual_trigger,
                               manual_full_trigger, sync_in_progress,
                               cacheVars, storeVars, sync_cursor,
                               project_issues, nodes>>
      ]_vars

\* A project directory is known and an open replied EISDIR.
C19_Witness ==
    /\ reply = [kind |-> "error", errno |-> "EISDIR"]
    /\ INO_OF_PROJECT \in DOMAIN nodes
    /\ INO_OF_ISSUE \notin DOMAIN nodes

\* C20: a trigger flag is set exactly when a trigger call came after the
\* last check_and_clear of it; check_and_clear returns the flag and leaves
\* it false, so of the calls that follow one or several trigger calls the
\* first returns true and the later ones false.
C20_CheckAndClear ==
    [][/\ manual_trigger' = (pending'.manual > 0)
       /\ manual_full_trigger' = (pending'.full > 0)
       /\ CheckAndClearManualTrigger
             => /\ cleared'.value = (pending.manual > 0)
                /\ ~manual_trigger'
                /\ manual_full_trigger' = manual_full_trigger
       /\ CheckAndClearManualFullTrigger
             => /\ cleared'.value = (pending.full > 0)
                /\ ~manual_full_trigger'
                /\ manual_trigger' = manual_trigger
      ]_vars

\* Two trigger calls were answered by one check_and_clear returning true.
C20_Witness ==
    /\ cleared = [flag |-> "manual", value |-> TRUE, calls |-> 2]
    /\ ~manual_trigger
    /\ pending.manual = 0

(***************************************************************************)
(* SpecView: the filesystem's lookup handler over the cache's listings,    *)
(* while listings are replaced and time passes.                            *)
(***************************************************************************)
\* A file name is the sequence of its characters; a suffix that the handler
\* strips is written as one or two elements.
Sfx_md == <<".md">>
Sfx_comments_md == <<".comments", ".md">>
Sfx_comments_jsonl == <<".comments", ".jsonl">>

\* str::strip_suffix: Option<&str>
strip_suffix(s, suffix) ==
    IF /\ Len(s) >= Len(suffix)
       /\ SubSeq(s, Len(s) - Len(suffix) + 1, Len(s)) = suffix
    THEN {SubSeq(s, 1, Len(s) - Len(suffix))}
    ELSE {}

\* str::starts_with
starts_with(s, prefix) ==
    Len(s) >= Len(prefix) /\ SubSeq(s, 1, Len(prefix)) = prefix

\* The (issue_key, kind) that lookup takes from a file name, if any.
IssueFileOf(file_name) ==
    IF strip_suffix(file_name, Sfx_comments_jsonl) # {}
    THEN { <<value, "CommentsJsonl">> :
             value \in strip_suffix(file_name, Sfx_comments_jsonl) }
    ELSE IF strip_suffix(file_name, Sfx_comments_md) # {}
    THEN { <<value, "CommentsMarkdown">> :
             value \in strip_suffix(file_name, Sfx_comments_md) }
    ELSE { <<value, "Main">> : value \in strip_suffix(file_name, Sfx_md) }

\* namespace_hash is 64-bit FNV-1a over a namespace byte and the name; the
\* model numbers the names it uses so that distinct (namespace, name) pairs
\* get distinct inodes.
Digit(c) ==
    CASE c = "A" -> 1
      [] c = "B" -> 2
      [] c = "-" -> 3
      [] c = "1" -> 4
      [] c = "2" -> 5
      [] c = "/" -> 6
      [] c = "#comments.md" -> 7
      [] c = "#comments.jsonl" -> 8

RECURSIVE Positional(_)
Positional(bytes) ==
    IF bytes = <<>> THEN 0
    ELSE Positional(SubSeq(bytes, 1, Len(bytes) - 1)) * 10
            + Digit(bytes[Len(bytes)])

namespace_hash(namespace, bytes) == namespace * 1000000 + Positional(bytes)

inode_for_project(project) == namespace_hash(17, <<project>>)

inode_for_issue_kind(project, issue_key, kind) ==
    CASE kind = "Main" ->
            namespace_hash(34, <<project, "/">> \o issue_key)
      [] kind = "CommentsMarkdown" ->
            namespace_hash(35, <<project, "/">> \o issue_key
                                  \o <<"#comments.md">>)
      [] kind = "CommentsJsonl" ->
            namespace_hash(36, <<project, "/">> \o issue_key
                                  \o <<"#comments.jsonl">>)

\* The configured projects (JiraFuseFs.projects): the workspace names.
Projects(ws) == { ws[i].name : i \in DOMAIN ws }

\* JiraFuseFs::project_for_inode: Option<String>.  A Project node of the
\* table is stored under inode_for_project of its name only.
project_for_inode(ws, ino) ==
    { project \in Projects(ws) : inode_for_project(project) = ino }

\* issue_key.starts_with(&format!("{project}-")), without the project.
HasProjectPrefixAny(issue_key, project) == Len(issue_key) >= 2

HasProjectPrefix(issue_key, project) ==
    starts_with(issue_key, <<project, "-">>)

\* JiraFuseFs::issue_exists_in_project at time t
issue_exists_in_project(pi, project, issue_key, t) ==
    LET issues_ == SnapshotIssues(get_project_issues_snapshot(pi, project, t))
    IN \E j \in DOMAIN issues_ : issues_[j].key = issue_key

\* The metric that get_project_issues_snapshot counts.
SnapshotMetric(pi, project, t) ==
    LET snapshot == get_project_issues_snapshot(pi, project, t)
    IN IF snapshot = {} THEN "none"
       ELSE IF (CHOOSE s \in snapshot : TRUE).is_stale THEN "cache_miss"
       ELSE "cache_hit"

ENOENT == [reply |-> [kind |-> "error", errno |-> "ENOENT"], upsert |-> {},
           metric |-> "none"]

Entry(ino) == [kind |-> "entry", ino |-> ino]

\* Filesystem::lookup(parent, name) at time t: the reply, the node it puts
\* into the table and the metric it counts.
LookupOutcome(pi, ws, parent, name, t) ==
    IF parent = ROOT
    THEN IF name = <<".sync_meta">>
         THEN [ENOENT EXCEPT !.reply = Entry(INO_SYNC_META)]
         ELSE IF name = <<"projects">>
         THEN [ENOENT EXCEPT !.reply = Entry(INO_PROJECTS)]
         ELSE IF name = <<"tickets">>
         THEN [ENOENT EXCEPT !.reply = Entry(INO_TICKETS)]
         ELSE ENOENT
    ELSE IF parent = INO_TICKETS
    THEN IF name = <<"index.jsonl">>
         THEN [ENOENT EXCEPT !.reply = Entry(INO_TICKETS_INDEX)]
         ELSE ENOENT
    ELSE IF parent = INO_SYNC_META
    THEN IF name = <<"last_sync">>
         THEN [ENOENT EXCEPT !.reply = Entry(INO_LAST_SYNC)]
         ELSE IF name = <<"last_full_sync">>
         THEN [ENOENT EXCEPT !.reply = Entry(INO_LAST_FULL_SYNC)]
         ELSE IF name = <<"seconds_to_next_sync">>
         THEN [ENOENT EXCEPT !.reply = Entry(INO_SECONDS_TO_NEXT)]
         ELSE IF name = <<"manual_refresh">>
         THEN [ENOENT EXCEPT !.reply = Entry(INO_MANUAL_REFRESH)]
         ELSE IF name = <<"full_refresh">>
         THEN [ENOENT EXCEPT !.reply = Entry(INO_FULL_REFRESH)]
         ELSE ENOENT
    ELSE IF parent = INO_PROJECTS
    THEN IF \E p \in Projects(ws) : name = <<p>>
         THEN LET ino == inode_for_project(name[1])
              IN [ENOENT EXCEPT !.reply = Entry(ino),
                                !.upsert = {<<ino, "Project">>}]
         ELSE ENOENT
    ELSE IF project_for_inode(ws, parent) = {} THEN ENOENT
    ELSE IF IssueFileOf(name) = {} THEN ENOENT
    ELSE LET project == CHOOSE p \in project_for_inode(ws, parent) : TRUE
             file == CHOOSE f \in IssueFileOf(name) : TRUE
             issue_key == file[1]
             kind == file[2]
         IN IF ~HasProjectPrefix(issue_key, project) THEN ENOENT
            ELSE IF issue_exists_in_project(pi, project, issue_key, t)
            THEN LET ino == inode_for_issue_kind(project, issue_key, kind)
                 IN [reply |-> Entry(ino), upsert |-> {<<ino, "Issue">>},
                     metric |-> SnapshotMetric(pi, project, t)]
            ELSE [ENOENT EXCEPT !.metric = SnapshotMetric(pi, project, t)]

\* What the handlers of SpecView leave alone.
viewFrame == <<last_sync, last_full_sync, manual_trigger,
               manual_full_trigger, sync_in_progress, initial_sync_started,
               pc, force_full, wins, lost, storeVars, cacheVars, pending,
               cleared, sync_cursor, workspaces, upstream>>

\* Filesystem::lookup
FsLookup(parent, name) ==
    \E o \in {LookupOutcome(project_issues, workspaces, parent, name, now)} :
        /\ reply' = o.reply
        /\ nodes' = IF o.upsert = {} THEN nodes
                    ELSE LET n == CHOOSE u \in o.upsert : TRUE
                         IN Insert(nodes, n[1], n[2])
        /\ last' = [NoCall EXCEPT !.op = "lookup", !.parent = parent,
                                  !.name = name, !.metric = o.metric]
        /\ UNCHANGED <<now, project_issues, viewFrame>>

\* The listings that a sync pass or the seeding may store for a workspace:
\* a listing holds the issues that the workspace's query matched, whatever
\* their keys.
Ref(k) == [key |-> k, updated |-> 1]

Listings == { <<>>, <<Ref(Key_A1)>>, <<Ref(Key_A1), Ref(Key_B1)>>,
              <<Ref(Key_A2)>> }

\* InMemoryCache::upsert_project_issues, as the sync engine calls it.
ViewUpsertProjectIssues(project, refs) ==
    /\ project_issues' = upsert_project_issues(project_issues, project, refs,
                                               now, project_ttl)
    /\ last' = [NoCall EXCEPT !.op = "upsert_project_issues"]
    /\ UNCHANGED <<now, reply, nodes, viewFrame>>

LookupParents == {ROOT, INO_PROJECTS, inode_for_project("A"), INO_UNKNOWN}

LookupNames ==
    { Key_A1 \o sfx : sfx \in {Sfx_md, Sfx_comments_md, Sfx_comments_jsonl,
                               <<>>} }
    \cup { Key_B1 \o Sfx_md, <<"A">>, <<"projects">> }

InitView ==
    /\ SyncInit
    /\ StoreInit
    /\ issue_markdown = <<>>
    /\ project_issues = <<>>
    /\ persistent = FALSE
    /\ issue_ttl = 0
    /\ project_ttl \in 0..MaxTtl
    /\ issue_markdown_locked = FALSE
    /\ frame = <<>>
    /\ stale_served = 0
    /\ workspaces = WorkspaceList({})
    /\ upstream = [k \in UpstreamKeys |-> 0]
    /\ last = NoCall
    /\ now = 0

NextView ==
    \/ \E parent \in LookupParents, name \in LookupNames :
          FsLookup(parent, name)
    \/ \E refs \in Listings : ViewUpsertProjectIssues("A", refs)
    \/ CacheTick

SpecView == InitView /\ [][NextView]_vars

\* The issue keys of workspace w's listing in memory.
ListedKeys(w) ==
    IF w \in DOMAIN project_issues
    THEN { project_issues[w].value[j].key :
             j \in DOMAIN project_issues[w].value }
    ELSE {}

\* The three suffixes of an issue's files.
IssueSuffixes == {<<".md">>, <<".comments", ".md">>, <<".comments", ".jsonl">>}

\* C21: a lookup of name in the directory of project p replies with an
\* entry if and only if name is an issue key followed by .md, .comments.md
\* or .comments.jsonl, the key starts with "<p>-" and the key is in p's
\* listing in memory, whether the listing is fresh or stale; otherwise it
\* replies ENOENT.  The lookup leaves the listings and the upstream tracker
\* as they are.
C21_LookupIssueFile ==
    [][\A p \in Projects(workspaces) :
          (last'.op = "lookup" /\ last'.parent = inode_for_project(p))
          => /\ reply'.kind = "entry"
                <=> \E k \in ListedKeys(p), sfx \in IssueSuffixes :
                       /\ last'.name = k \o sfx
                       /\ k[1] = p /\ k[2] = "-"
             /\ reply'.kind # "entry"
                => reply' = [kind |-> "error", errno |-> "ENOENT"]
             /\ project_issues' = project_issues
             /\ upstream' = upstream]_vars

\* A lookup found an issue file in a project directory whose listing is
\* stale.
C21_Witness ==
    /\ last.op = "lookup"
    /\ last.parent = inode_for_project("A")
    /\ last.name = Key_A1 \o <<".comments", ".md">>
    /\ reply.kind = "entry"
    /\ last.metric = "cache_miss"
    /\ now > 0

(***************************************************************************)
(* Claims about the listings of the workspaces (SpecSync).                 *)
(***************************************************************************)
\* Workspace w's request succeeded in the pass of this step.
Visited(w) ==
    \E j \in DOMAIN last'.log : last'.log[j].workspace = w /\ last'.log[j].ok

\* Workspace w has a listing in pi that is not stale at time t.
FreshAt(pi, w, t) ==
    \E s \in get_project_issues_snapshot(pi, w, t) : ~s.is_stale

\* A lookup of every listed issue of w that carries w's prefix is answered
\* from listing pi at time t, and counted as a miss exactly when the listing
\* is stale.
AnswersLookup(pi, w, t) ==
    \A j \in DOMAIN pi[w].value :
        LET k == pi[w].value[j].key
            o == LookupOutcome(pi, workspaces, inode_for_project(w),
                               k \o Sfx_md, t)
        IN HasProjectPrefix(k, w)
           => /\ o.reply.kind = "entry"
              /\ o.metric = IF t - pi[w].cached_at >= pi[w].ttl
                            THEN "cache_miss" ELSE "cache_hit"

C23_NoStoreIsAnError ==
    [][(IsPass /\ ~persistent)
       => /\ last'.result.errors # <<>>
          /\ last'.log = <<>>
          /\ UNCHANGED <<issue_markdown, project_issues, sync_cursor,
                         issues, ticket_index, issue_sidecars>>]_vars

(***************************************************************************)
(* SpecCacheFaults: direct and batch upserts on a memory cache whose       *)
(* durable store's statements may fail.                                    *)
(***************************************************************************)
\* InMemoryCache::upsert_issues_batch on a cache with a durable store.
CacheUpsertIssuesBatch(rows, fail) ==
    /\ ~issue_markdown_locked
    /\ persistent
    /\ CanAccessBatch(rows)
    /\ \E e \in {upsert_issues_batch(Engine, rows, now, issue_ttl, fail)} :
          /\ issue_markdown' = e.mem
          /\ SetDb(e.db)
          /\ last' = [NoCall EXCEPT !.op = "cache_upsert_issues_batch",
                                    !.rows = rows, !.count = e.count,
                                    !.fail = fail]
    /\ UNCHANGED <<syncVars, fsVars, engineVars, now, expect, persistent,
                   issue_ttl, project_ttl, stale_served, threadVars>>

\* The statements of upsert_issue that may fail: the INSERT of the issues
\* row and the one of the ticket_index row.
IssueUpsertFails == 0..2

InitCacheFaults ==
    /\ SyncInit
    /\ StoreInit
    /\ TrackerInit
    /\ issue_markdown = <<>>
    /\ project_issues = <<>>
    /\ persistent = TRUE
    /\ issue_ttl = 0
    /\ project_ttl = 0
    /\ issue_markdown_locked = FALSE
    /\ frame = <<>>
    /\ stale_served = 0
    /\ last = NoCall
    /\ now = 0

\* The batches tried: the empty one and those that start with one given
\* row, so that a batch repeats a key, overwrites it or spans two keys.
FaultBatches ==
    { rows \in IssueBatches :
        rows = <<>> \/ rows[1] = <<Key_AB2, "m1", "u1">> }

NextCacheFaults ==
    \/ \E row \in BatchIssueRows, fail \in IssueUpsertFails :
          CacheUpsertIssueDirect(row[1], row[2], row[3], fail)
    \/ \E rows \in FaultBatches :
          \E fail \in IssueBatchFails(rows) :
             CacheUpsertIssuesBatch(rows, fail)

SpecCacheFaults == InitCacheFaults /\ [][NextCacheFaults]_vars

\* The step is an upsert on the memory cache whose durable write failed.
FailedCacheUpsert ==
    /\ last'.op \in {"upsert_issue_direct", "cache_upsert_issues_batch"}
    /\ last'.fail # 0

\* C24: when the durable write inside upsert_issue_direct or
\* upsert_issues_batch fails, the call returns normally, memory holds for
\* every key of the call the markdown and source_updated of the call's
\* (last) row for it, and upsert_issues_batch returns the number of rows.
C24_BestEffortPersistence ==
    [][FailedCacheUpsert
       => /\ last'.ok
          /\ \A k \in KeysOf(last'.rows) :
                /\ k \in DOMAIN issue_markdown'
                /\ issue_markdown'[k].markdown = LastRowFor(last'.rows, k)[2]
                /\ issue_markdown'[k].source_updated
                      = LastRowFor(last'.rows, k)[3]
          /\ last'.op = "cache_upsert_issues_batch"
                => last'.count = Len(last'.rows)]_vars

\* A batch of two rows whose COMMIT failed: both rows are in memory, none
\* is in the durable store, and the call returned 2.
C24_Witness ==
    /\ last.op = "cache_upsert_issues_batch"
    /\ last.fail = 2 * Len(last.rows) + 1
    /\ last.count = 2
    /\ KeysOf(last.rows) = {Key_AB2, Key_X3}
    /\ DOMAIN issue_markdown = {Key_AB2, Key_X3}
    /\ issues = {}

(***************************************************************************)
(* SpecCursor: the sync_cursor table under sync passes and under direct    *)
(* calls of get_sync_cursor, set_sync_cursor and clear_sync_cursor.        *)
(***************************************************************************)
\* What the cursor calls leave alone.
cursorFrame == <<syncVars, fsVars, now, storeVars, cacheVars, project_issues,
                 workspaces, upstream>>

\* InMemoryCache::set_sync_cursor(project, last_sync)
CursorSet(project, stamp) ==
    /\ persistent
    /\ sync_cursor' = set_sync_cursor(sync_cursor, project, stamp, FALSE)
    /\ last' = [NoCall EXCEPT !.op = "set_sync_cursor", !.name = project,
                              !.n = stamp]
    /\ UNCHANGED cursorFrame

\* InMemoryCache::get_sync_cursor(project); fetched holds the Option it
\* returns.
CursorGet(project) ==
    /\ persistent
    /\ last' = [NoCall EXCEPT !.op = "get_sync_cursor", !.name = project,
                   !.fetched = get_sync_cursor(sync_cursor, project, FALSE)]
    /\ UNCHANGED <<sync_cursor, cursorFrame>>

\* InMemoryCache::clear_sync_cursor(project)
CursorClear(project) ==
    /\ persistent
    /\ sync_cursor' = clear_sync_cursor(sync_cursor, project, FALSE)
    /\ last' = [NoCall EXCEPT !.op = "clear_sync_cursor", !.name = project]
    /\ UNCHANGED cursorFrame

\* The durable store is configured; workspace B holds one issue and
\* workspace A one newer issue.
InitCursor ==
    /\ SyncInit
    /\ StoreInit
    /\ issue_markdown = <<>>
    /\ project_issues = <<>>
    /\ persistent = TRUE
    /\ issue_ttl = 1
    /\ project_ttl = ListingTtl
    /\ issue_markdown_locked = FALSE
    /\ frame = <<>>
    /\ stale_served = 0
    /\ workspaces = WorkspaceList({})
    /\ upstream = [k \in UpstreamKeys |->
                      IF k = Key_B1 THEN 1 ELSE IF k = Key_A1 THEN 2 ELSE 0]
    /\ last = NoCall
    /\ now = 0

CursorProjects == {"A", "B"}

NextCursor ==
    \/ \E full \in BOOLEAN, fails \in {{}, {1}}, perm \in Perms :
          SyncPass(MaxBudget, full, fails, perm, NoFaults)
    \/ \E project \in CursorProjects, stamp \in 1..MaxStamp :
          CursorSet(project, stamp)
    \/ \E project \in CursorProjects : CursorGet(project)
    \/ \E project \in CursorProjects : CursorClear(project)

SpecCursor == InitCursor /\ [][NextCursor]_vars

\* The pass of this step overwrote workspace w's cursor: its request
\* returned issues, the first of which gives the new cursor.
Overwrote(w) ==
    \E j \in Returned(last'.log) :
        /\ last'.log[j].workspace = w
        /\ sync_cursor'[w] = last'.log[j].page[1].updated

\* C25: a cursor leaves the table only in a clear_sync_cursor call for its
\* workspace; a pass with force_full uses no stored cursor and keeps each
\* stored cursor unless it overwrites it with the updated of the first
\* issue of the workspace's page; set_sync_cursor changes the cursor of its
\* workspace only, and a get_sync_cursor that follows it on that workspace
\* returns the value set.
C25_CursorLifecycle ==
    [][/\ \A w \in DOMAIN sync_cursor :
             w \notin DOMAIN sync_cursor'
             => last'.op = "clear_sync_cursor" /\ last'.name = w
       /\ (IsPass /\ last'.force_full)
          => /\ \A j \in DOMAIN last'.log : last'.log[j].cursor = {}
             /\ \A w \in DOMAIN sync_cursor :
                   sync_cursor'[w] = sync_cursor[w] \/ Overwrote(w)
       /\ last'.op = "set_sync_cursor"
          => /\ sync_cursor'[last'.name] = last'.n
             /\ \A w \in CursorProjects \ {last'.name} :
                   Lookup(sync_cursor', w) = Lookup(sync_cursor, w)
       /\ (last.op = "set_sync_cursor" /\ last'.op = "get_sync_cursor"
           /\ last'.name = last.name)
          => last'.fetched = {last.n}]_vars

\* A force_full pass ran with cursors stored for both workspaces: B's
\* request failed and its cursor is still the one that was set by hand,
\* A's cursor was overwritten.
C25_Witness ==
    /\ last.op = "sync_issues"
    /\ last.force_full
    /\ Len(last.log) = 2
    /\ ~last.log[1].ok
    /\ DOMAIN sync_cursor = {"A", "B"}
    /\ sync_cursor["B"] = 3
    /\ sync_cursor["A"] = 2

(***************************************************************************)
(* SpecMount: a process syncs into the database file and exits; the next   *)
(* process opens the same file, mounts, and its init handler spawns the    *)
(* initial sync.                                                           *)
(***************************************************************************)
\* The process that is about to mount has been started.
Started == last.op = "new"

\* A sync pass of the earlier process.
EarlierPass(perm) ==
    /\ ~Started
    /\ SyncPass(MaxBudget, FALSE, {}, perm, NoFaults)

EarlierUpstreamChange(k) ==
    /\ ~Started
    /\ UpstreamChange(k)

\* The earlier process exits and the next one opens the database file.
MountRestart ==
    /\ ~Started
    /\ CacheRestart

\* Filesystem::init of the new process
MountInit ==
    /\ Started
    /\ FsInit

\* The spawned closure's sync_issues(&jira, &cache, &projects, sync_budget,
\* false), sync_budget being MaxBudget.
MountSyncIssues(perm) ==
    /\ pc[InitialThread] = "syncing"
    /\ \E e \in {sync_issues(Engine,
                          [workspaces |-> workspaces, budget |-> MaxBudget,
                           force_full |-> FALSE, upstream |-> upstream,
                           perm |-> perm, fails |-> {}, faults |-> NoFaults,
                           t |-> now, ttl |-> issue_ttl,
                           project_ttl |-> project_ttl],
                          persistent)} :
        /\ WithinAccess(e.db)
        /\ SetDb(e.db)
        /\ sync_cursor' = e.cur
        /\ issue_markdown' = e.mem
        /\ project_issues' = e.pi
        /\ last' = [NoCall EXCEPT !.op = "initial_sync",
                                  !.budget = MaxBudget,
                                  !.result = e.result, !.log = e.log]
    /\ pc' = [pc EXCEPT ![InitialThread] = "synced"]
    /\ UNCHANGED <<last_sync, last_full_sync, manual_trigger,
                   manual_full_trigger, sync_in_progress,
                   initial_sync_started, force_full, reply, wins, lost, now,
                   fsVars, expect, persistent, issue_ttl, project_ttl,
                   stale_served, threadVars, workspaces, upstream>>

NextMount ==
    \/ \E perm \in Perms : EarlierPass(perm)
    \/ \E k \in EditedKeys : EarlierUpstreamChange(k)
    \/ MountRestart
    \/ MountInit
    \/ InitialMarkSyncStart
    \/ \E perm \in Perms : MountSyncIssues(perm)
    \/ InitialMarkSyncComplete
    \/ InitialMarkSyncEnd

SpecMount == InitCursor /\ [][NextMount]_vars

\* C26: the pass that init spawns ignores every stored cursor: each of its
\* requests is the workspace's initial query.
C26_InitialPassIsFull ==
    [][last'.op = "initial_sync"
       => \A j \in DOMAIN last'.log : last'.log[j].cursor = {}]_vars

(***************************************************************************)
(* SpecRead: Filesystem::read of issue main files over a memory cache      *)
(* with or without a durable store, under upserts, restarts and the        *)
(* passage of time.                                                        *)
(***************************************************************************)
\* The bytes that the markdown values of the model stand for.
Bytes(markdown) ==
    IF markdown = "m1" THEN <<"a", "b">> ELSE <<"c", "d", "e">>

\* format!("# {}\n\nNot yet available in local cache. ...\n", issue_key),
\* the text after the key being one element.
Placeholder(issue_key) ==
    <<"#", " ">> \o issue_key \o <<"\n\nNot yet available in local cache.">>

\* The Node::Issue { key, kind } that the table holds under ino.  The table
\* stores an Issue node under inode_for_issue_kind of its project, key and
\* kind only, so key and kind are read back from the inode.
IssueNodeAt(table, ws, ino) ==
    { [key |-> k, kind |-> kind] :
        k \in { k \in CacheKeys \cup UpstreamKeys :
                  \E p \in Projects(ws) :
                     inode_for_issue_kind(p, k, "Main") = ino },
        kind \in { kind \in {"Main"} : Lookup(table, ino) = {"Issue"} } }

\* issue_bytes without its or_else.
issue_bytes_no_placeholder(c, issue_key) ==
    IF c.ok THEN [ok |-> TRUE, bytes |-> Bytes(c.markdown)]
    ELSE [ok |-> FALSE, bytes |-> <<>>]

\* JiraFuseFs::issue_bytes on the outcome c of
\* get_issue_markdown_stale_safe(issue_key, || Err(EAGAIN)).
issue_bytes(c, issue_key) ==
    IF c.ok THEN [ok |-> TRUE, bytes |-> Bytes(c.markdown)]
    ELSE [ok |-> TRUE, bytes |-> Placeholder(issue_key)]

\* &data[start..end], or &[] when start >= data.len()
ByteRange(data, offset, size) ==
    IF offset >= Len(data) THEN <<>>
    ELSE SubSeq(data, offset + 1, Min(offset + size, Len(data)))

\* Filesystem::read of an inode that is none of the fixed files; for an
\* issue's main file the bytes come from issue_bytes, whose fetch fails
\* fast.
FsRead(ino, offset, size) ==
    /\ stale_served < MaxStale
    /\ \A n \in IssueNodeAt(nodes, workspaces, ino) : CanAccess(n.key)
    /\ IF IssueNodeAt(nodes, workspaces, ino) = {}
       THEN /\ reply' = [kind |-> "error", errno |-> "ENOENT"]
            /\ last' = [NoCall EXCEPT !.op = "read", !.parent = ino,
                                      !.n = offset, !.count = size]
            /\ UNCHANGED <<storeVars, cacheVars>>
       ELSE \E n \in IssueNodeAt(nodes, workspaces, ino) :
            \E c \in {get_issue_markdown_stale_safe(Cache, n.key, <<"err">>,
                                                    now, 0, 0, "deadlock")} :
            \E data \in {issue_bytes(c, n.key)} :
               /\ SetCache(c)
               /\ reply' = IF data.ok
                           THEN [kind |-> "data",
                                 data |-> ByteRange(data.bytes, offset, size)]
                           ELSE [kind |-> "error", errno |-> "EAGAIN"]
               /\ last' = [NoCall EXCEPT !.op = "read", !.parent = ino,
                                         !.key = n.key, !.n = offset,
                                         !.count = size,
                                         !.fetched = c.fetched,
                                         !.consulted = c.consulted]
               /\ UNCHANGED expect
    /\ UNCHANGED <<last_sync, last_full_sync, manual_trigger,
                   manual_full_trigger, sync_in_progress,
                   initial_sync_started, pc, force_full, wins, lost, now,
                   fsVars, engineVars>>

ReadInodes == {inode_for_issue_kind("A", Key_AB2, "Main"), INO_UNKNOWN}

ReadOffsets == {0, 2, 9}

ReadSizes == {2}

InitRead ==
    /\ SyncInit
    /\ StoreInit
    /\ issue_markdown = <<>>
    /\ project_issues = <<>>
    /\ persistent \in BOOLEAN
    /\ issue_ttl \in 0..MaxTtl
    /\ project_ttl = 0
    /\ issue_markdown_locked = FALSE
    /\ frame = <<>>
    /\ stale_served = 0
    /\ workspaces = WorkspaceList({})
    /\ upstream = [k \in UpstreamKeys |-> 0]
    /\ last = NoCall
    /\ now = 0

NextRead ==
    \/ \E ino \in ReadInodes, offset \in ReadOffsets, size \in ReadSizes :
          FsRead(ino, offset, size)
    \/ UpsertNode(inode_for_issue_kind("A", Key_AB2, "Main"), "Issue")
    \/ \E key \in CacheKeys, m \in Markdowns :
          CacheUpsertIssueDirect(key, m, "u1", 0)
    \/ CacheRestart
    \/ CacheTick

SpecRead == InitRead /\ [][NextRead]_vars

\* The content that a read of key's main file serves, by the state before
\* the call: the memory value, else the durable row's, else the placeholder.
ServedContent(key) ==
    IF key \in DOMAIN issue_markdown
    THEN Bytes(issue_markdown[key].markdown)
    ELSE IF persistent /\ HasRow(issues, key)
    THEN Bytes(RowOf(issues, key).markdown)
    ELSE <<"#", " ">> \o key \o <<"\n\nNot yet available in local cache.">>

\* The step is a read of an issue's main file.
IsIssueRead == last'.op = "read" /\ last'.key # <<>>

\* C27: a read of an issue's main file replies with data, never an error:
\* the bytes offset .. offset + size (cut at the end) of the memory value
\* when there is one, fresh or stale, else of the durable row when there is
\* one, else of the placeholder; nothing when offset is at or past the end.
\* Its fetch is the fail-fast closure, and the upstream is not touched.
C27_ReadIssueFile ==
    [][IsIssueRead
       => LET content == ServedContent(last'.key)
              from == last'.n
              to == IF from + last'.count < Len(content)
                    THEN from + last'.count ELSE Len(content)
          IN /\ reply'.kind = "data"
             /\ reply'.data = [i \in 1..(IF from >= Len(content) THEN 0
                                         ELSE to - from) |->
                                  content[from + i]]
             /\ from >= Len(content) => reply'.data = <<>>
             /\ last'.fetched \in {<<>>, <<"err">>}
             /\ upstream' = upstream]_vars

\* A read at offset 2 served the last byte of a stale memory value.
C27_Witness ==
    /\ last.op = "read"
    /\ last.key = Key_AB2
    /\ last.n = 2
    /\ last.fetched = <<"err">>
    /\ reply = [kind |-> "data", data |-> <<"e">>]
    /\ stale_served > 0

(***************************************************************************)
(* SpecRace: calls on one memory cache from different threads, each call   *)
(* taken one critical section at a time.  A step is what a call does       *)
(* under one guard of issue_markdown or in one call on the durable store   *)
(* (whose connection has its own mutex); between two steps of a call the   *)
(* other threads may run.  Every statement of the store succeeds.          *)
(***************************************************************************)
Reader == "reader"
DirectWriter == "direct"
BatchWriter == "batch"
CacheThreads == {Reader, DirectWriter, BatchWriter}

\* A thread outside every call on the cache.
Idle == [pc |-> "idle", key |-> <<>>, t |-> 0, existing |-> {},
         markdown |-> None, updated |-> None, rows |-> <<>>]

AllIdle == \A th \in CacheThreads : frame[th] = Idle

SetFrame(th, f) == frame' = [frame EXCEPT ![th] = f]

Return(th) == SetFrame(th, Idle)

raceFrame == <<syncVars, fsVars, engineVars, persistent, issue_ttl,
               project_ttl>>

\* get_issue_markdown_stale_safe, lines 160-172: Instant::now, the first
\* lookup (its guard dies with the statement) and the fresh hit.
ReadBegin(th, key) ==
    /\ frame[th] = Idle
    /\ ~issue_markdown_locked
    /\ LET existing == Lookup(issue_markdown, key)
           f == [Idle EXCEPT !.key = key, !.t = now, !.existing = existing]
       IN IF \E e \in existing : IsFresh(e, now)
          THEN /\ Return(th)
               /\ last' = [NoCall EXCEPT
                             !.op = "get_issue_markdown_stale_safe",
                             !.key = key,
                             !.markdown =
                                (CHOOSE e \in existing : TRUE).markdown]
          ELSE /\ SetFrame(th, [f EXCEPT !.pc =
                                   IF ShouldHydrate(existing) /\ persistent
                                   THEN "get_issue" ELSE "fetch"])
               /\ last' = NoCall
    /\ UNCHANGED <<raceFrame, storeVars, issue_markdown, stale_served,
                   issue_markdown_locked, now>>

\* lines 174-176: persistent.get_issue
ReadGetIssue(th) ==
    /\ frame[th].pc = "get_issue"
    /\ CanAccess(frame[th].key)
    /\ \E got \in {persistent_get_issue(Db, frame[th].key, 0)} :
          /\ SetDb(got.db)
          /\ SetFrame(th, IF got.ok /\ got.some
                          THEN [frame[th] EXCEPT !.pc = "hydrate",
                                                 !.markdown = got.markdown,
                                                 !.updated = got.updated]
                          ELSE [frame[th] EXCEPT !.pc = "fetch"])
    /\ last' = NoCall
    /\ UNCHANGED <<raceFrame, expect, issue_markdown, stale_served,
                   issue_markdown_locked, now>>

\* lines 177-189: the hydrated entry is inserted and the row's markdown
\* returned.
ReadHydrate(th) ==
    /\ frame[th].pc = "hydrate"
    /\ ~issue_markdown_locked
    /\ issue_markdown' = Insert(issue_markdown, frame[th].key,
                                Hydrated(frame[th], frame[th].t, issue_ttl))
    /\ Return(th)
    /\ last' = [NoCall EXCEPT !.op = "get_issue_markdown_stale_safe",
                              !.key = frame[th].key,
                              !.markdown = frame[th].markdown,
                              !.consulted = TRUE]
    /\ UNCHANGED <<raceFrame, storeVars, stale_served,
                   issue_markdown_locked, now>>

\* lines 193-206: fetch is called; on Err the entry read at the start, if
\* any, is served.
ReadFetch(th, fetched) ==
    /\ frame[th].pc = "fetch"
    /\ stale_served < MaxStale
    /\ IF fetched[1] = "err"
       THEN \E c \in {OnFetchErr([Cache EXCEPT !.fetched = fetched],
                                 frame[th].existing)} :
               /\ stale_served' = c.stale_served
               /\ Return(th)
               /\ last' = [NoCall EXCEPT
                             !.op = "get_issue_markdown_stale_safe",
                             !.key = frame[th].key, !.ok = c.ok,
                             !.markdown = c.markdown, !.fetched = fetched]
       ELSE /\ SetFrame(th, [frame[th] EXCEPT !.pc = "relookup",
                                              !.markdown = fetched[2],
                                              !.updated = fetched[3]])
            /\ last' = NoCall
            /\ UNCHANGED stale_served
    /\ UNCHANGED <<raceFrame, storeVars, issue_markdown,
                   issue_markdown_locked, now>>

\* lines 208-221: the second lookup.  With an entry of the same
\* source_updated the thread locks issue_markdown again under its own
\* guard: it blocks for good, or it panics and is gone.
ReadRelookup(th, relock) ==
    /\ frame[th].pc = "relookup"
    /\ ~issue_markdown_locked
    /\ IF \E e \in Lookup(issue_markdown, frame[th].key) :
             SameSource(e, frame[th].updated)
       THEN /\ issue_markdown_locked' = (relock = "deadlock")
            /\ SetFrame(th, IF relock = "deadlock"
                            THEN [frame[th] EXCEPT !.pc = "blocked"]
                            ELSE Idle)
            /\ last' = [NoCall EXCEPT
                          !.op = "get_issue_markdown_stale_safe",
                          !.key = frame[th].key, !.ok = FALSE,
                          !.returned = FALSE,
                          !.fetched = <<"ok", frame[th].markdown,
                                        frame[th].updated>>]
       ELSE /\ SetFrame(th, [frame[th] EXCEPT !.pc = "insert"])
            /\ last' = NoCall
            /\ UNCHANGED issue_markdown_locked
    /\ UNCHANGED <<raceFrame, storeVars, issue_markdown, stale_served, now>>

\* lines 223-233: the fetched entry is inserted.
ReadInsert(th) ==
    /\ frame[th].pc = "insert"
    /\ ~issue_markdown_locked
    /\ issue_markdown' = Insert(issue_markdown, frame[th].key,
                                CacheEntry(frame[th].markdown, frame[th].t,
                                           issue_ttl, frame[th].updated))
    /\ IF persistent
       THEN /\ SetFrame(th, [frame[th] EXCEPT !.pc = "upsert"])
            /\ last' = NoCall
       ELSE /\ Return(th)
            /\ last' = [NoCall EXCEPT
                          !.op = "get_issue_markdown_stale_safe",
                          !.key = frame[th].key,
                          !.markdown = frame[th].markdown,
                          !.fetched = <<"ok", frame[th].markdown,
                                        frame[th].updated>>]
    /\ UNCHANGED <<raceFrame, storeVars, stale_served,
                   issue_markdown_locked, now>>

\* One persistent.upsert_issue whose result is dropped.
DurableUpsertIssue(key, markdown, updated) ==
    \E r \in {persistent_upsert_issue(Db, key, markdown, updated, now, 0)} :
       /\ SetDb(r.db)
       /\ expect' = [expect EXCEPT ![key] = <<markdown, updated>>]

\* lines 235-239: the durable upsert of the fetched value, and the return.
ReadUpsert(th) ==
    /\ frame[th].pc = "upsert"
    /\ CanAccess(frame[th].key)
    /\ DurableUpsertIssue(frame[th].key, frame[th].markdown,
                          frame[th].updated)
    /\ Return(th)
    /\ last' = [NoCall EXCEPT !.op = "get_issue_markdown_stale_safe",
                              !.key = frame[th].key,
                              !.markdown = frame[th].markdown,
                              !.fetched = <<"ok", frame[th].markdown,
                                            frame[th].updated>>]
    /\ UNCHANGED <<raceFrame, issue_markdown, stale_served,
                   issue_markdown_locked, now>>

\* upsert_issue_direct, lines 252-263: the entry is inserted.
DirectInsert(th, key, markdown, updated) ==
    /\ frame[th] = Idle
    /\ ~issue_markdown_locked
    /\ issue_markdown' = Insert(issue_markdown, key,
                                CacheEntry(markdown, now, issue_ttl,
                                           updated))
    /\ IF persistent
       THEN /\ SetFrame(th, [Idle EXCEPT !.pc = "direct_upsert",
                                         !.key = key, !.t = now,
                                         !.markdown = markdown,
                                         !.updated = updated])
            /\ last' = NoCall
       ELSE /\ Return(th)
            /\ last' = [NoCall EXCEPT !.op = "upsert_issue_direct",
                                      !.key = key,
                                      !.rows = <<<<key, markdown, updated>>>>]
    /\ UNCHANGED <<raceFrame, storeVars, stale_served,
                   issue_markdown_locked, now>>

\* upsert_issue_direct, lines 265-267: the durable upsert, and the return.
DirectUpsert(th) ==
    /\ frame[th].pc = "direct_upsert"
    /\ CanAccess(frame[th].key)
    /\ DurableUpsertIssue(frame[th].key, frame[th].markdown,
                          frame[th].updated)
    /\ Return(th)
    /\ last' = [NoCall EXCEPT !.op = "upsert_issue_direct",
                              !.key = frame[th].key,
                              !.rows = <<<<frame[th].key, frame[th].markdown,
                                           frame[th].updated>>>>]
    /\ UNCHANGED <<raceFrame, issue_markdown, stale_served,
                   issue_markdown_locked, now>>

\* upsert_issues_batch, lines 272-289: every row is inserted under one
\* guard.
BatchInsert(th, rows) ==
    /\ frame[th] = Idle
    /\ ~issue_markdown_locked
    /\ issue_markdown' = InsertRows(issue_markdown, rows, now, issue_ttl)
    /\ IF persistent
       THEN /\ SetFrame(th, [Idle EXCEPT !.pc = "batch_upsert", !.t = now,
                                         !.rows = rows])
            /\ last' = NoCall
       ELSE /\ Return(th)
            /\ last' = [NoCall EXCEPT !.op = "cache_upsert_issues_batch",
                                      !.rows = rows, !.count = Len(rows)]
    /\ UNCHANGED <<raceFrame, storeVars, stale_served,
                   issue_markdown_locked, now>>

\* upsert_issues_batch, lines 291-295: the durable batch, and the return.
BatchUpsert(th) ==
    /\ frame[th].pc = "batch_upsert"
    /\ CanAccessBatch(frame[th].rows)
    /\ \E r \in {persistent_upsert_issues_batch(Db, frame[th].rows, now, 0)} :
          /\ SetDb(r.db)
          /\ expect' = [k \in IssueKeys |->
                          IF k \in KeysOf(frame[th].rows)
                          THEN <<LastRowFor(frame[th].rows, k)[2],
                                 LastRowFor(frame[th].rows, k)[3]>>
                          ELSE expect[k]]
    /\ Return(th)
    /\ last' = [NoCall EXCEPT !.op = "cache_upsert_issues_batch",
                              !.rows = frame[th].rows,
                              !.count = Len(frame[th].rows)]
    /\ UNCHANGED <<raceFrame, issue_markdown, stale_served,
                   issue_markdown_locked, now>>

\* The process is restarted while no call is in progress.
RaceRestart ==
    /\ AllIdle
    /\ issue_markdown # <<>>
    /\ CacheRestart

RaceRows == { <<Key_AB2, "m1", "u1">>, <<Key_AB2, "m2", None>> }

RaceFetchResults == { <<"err">>, <<"ok", "m1", "u1">> }

InitRace ==
    /\ SyncInit
    /\ StoreInit
    /\ TrackerInit
    /\ issue_markdown = <<>>
    /\ project_issues = <<>>
    /\ persistent = TRUE
    /\ issue_ttl = 1
    /\ project_ttl = 0
    /\ issue_markdown_locked = FALSE
    /\ frame = [th \in CacheThreads |-> Idle]
    /\ stale_served = 0
    /\ last = NoCall
    /\ now = 0

NextRace ==
    \/ ReadBegin(Reader, Key_AB2)
    \/ ReadGetIssue(Reader)
    \/ ReadHydrate(Reader)
    \/ \E fetched \in RaceFetchResults : ReadFetch(Reader, fetched)
    \/ \E relock \in RelockOutcomes : ReadRelookup(Reader, relock)
    \/ ReadInsert(Reader)
    \/ ReadUpsert(Reader)
    \/ \E row \in RaceRows :
          DirectInsert(DirectWriter, row[1], row[2], row[3])
    \/ DirectUpsert(DirectWriter)
    \/ \E row \in RaceRows : BatchInsert(BatchWriter, <<row>>)
    \/ BatchUpsert(BatchWriter)
    \/ RaceRestart
    \/ CacheTick

SpecRace == InitRace /\ [][NextRace]_vars

(***************************************************************************)
(* The memory tier against the upserts that have returned.  In SpecRace    *)
(* expect[k] holds the arguments of the last durable upsert of k, which is *)
(* the last step of the call that made it.                                 *)
(***************************************************************************)
WritersIdle == frame[DirectWriter] = Idle /\ frame[BatchWriter] = Idle

\* The memory entry of k holds the value of the last upsert of k.
HoldsUpserted(mem, k) ==
    /\ expect[k] # <<>>
    /\ k \in DOMAIN mem
    /\ mem[k].markdown = expect[k][1]
    /\ mem[k].source_updated = expect[k][2]

\* The reader's step is the insert that ends its hydration.
IsHydrationInsert(k) ==
    /\ frame[Reader].pc = "hydrate"
    /\ frame[Reader].key = k
    /\ frame'[Reader] = Idle

(***************************************************************************)
(* C28: a stale-safe read never regresses the memory tier: when an upsert  *)
(* of (v_new, u_new) for k has run concurrently with a stale-safe read of  *)
(* k and has returned, so that the memory entry of k holds v_new, the      *)
(* reader's hydration insert leaves the entry holding v_new.               *)
(***************************************************************************)
C28_ReadNeverRegressesMemory ==
    [][ \A k \in CacheKeys :
           (IsHydrationInsert(k) /\ WritersIdle
              /\ HoldsUpserted(issue_markdown, k))
           => HoldsUpserted(issue_markdown', k)
      ]_vars

\* The memory entry of k and the durable row of k hold the same markdown
\* and the same updated value.
TiersAgree(k) ==
    /\ HasRow(issues, k)
    /\ RowOf(issues, k).markdown = issue_markdown[k].markdown
    /\ RowOf(issues, k).updated = issue_markdown[k].source_updated

(***************************************************************************)
(* C30: tier agreement with concurrent writers: durable writes never       *)
(* failing, in every state where no cache operation is in progress each    *)
(* issue key present in memory has a durable row with the same markdown    *)
(* and the same updated value, for every interleaving of                   *)
(* upsert_issue_direct, upsert_issues_batch and fetching stale-safe reads  *)
(* of the same key from different threads.                                 *)
(***************************************************************************)
C30_TiersAgreeWhenQuiescent ==
    AllIdle => \A k \in DOMAIN issue_markdown : TiersAgree(k)

(***************************************************************************)
(* C29: cursor completeness: while workspace w has the stored cursor c,    *)
(* every upstream issue that matches w's query and has updated <= c has    *)
(* been upserted into the cache (it has a memory entry and a durable row), *)
(* also when the tracker holds more matching issues than one page or than  *)
(* the budget that remains in the pass.                                    *)
(***************************************************************************)
C29_CursorCompleteness ==
    \A w \in DOMAIN sync_cursor :
       \A k \in UpstreamKeys :
          (upstream[k] > 0 /\ Head(k) = w /\ upstream[k] <= sync_cursor[w])
          => (k \in DOMAIN issue_markdown /\ HasRow(issues, k))

\* The issues of entry j of a pass's log that the pass handed to
\* upsert_issues_batch: the first Count of the page.
HandedToBatch(ps, j) ==
    { ps.log[j].page[i] :
        i \in 1..Count(Len(ps.log[j].page), ps.budget, ps.log[j].before) }

\* The durable batch of entry j failed: an issue handed to it has no row
\* with its updated value.
DurableBatchFailed(ps, tbl, j) ==
    \E issue \in HandedToBatch(ps, j) :
        ~\E r \in tbl : r.issue_key = issue.key /\ r.updated = issue.updated

(***************************************************************************)
(* C31: a sync pass advances a workspace's cursor, and counts issues in    *)
(* issues_cached, only for issues whose durable batch upsert succeeded:    *)
(* when the durable issue batch of a workspace fails, the workspace's      *)
(* cursor is left as it was and its issues are not counted.                *)
(***************************************************************************)
C31_CursorFollowsDurableBatch ==
    [][IsPass =>
         /\ \A j \in Returned(last'.log) :
               DurableBatchFailed(last', issues', j)
               => Lookup(sync_cursor', last'.log[j].workspace)
                     = Lookup(sync_cursor, last'.log[j].workspace)
         /\ (\A j \in Returned(last'.log) :
                DurableBatchFailed(last', issues', j))
               => last'.result.issues_cached = 0
      ]_vars

\* The keys of the listing of workspace w in pi (none when it is absent).
KeysListed(pi, w) ==
    IF w \in DOMAIN pi
    THEN { pi[w].value[i].key : i \in DOMAIN pi[w].value }
    ELSE {}

DirEntry(ino, name) == [ino |-> ino, name |-> name]

\* The entries of the four fixed directories.
FixedEntries(ino) ==
    IF ino = ROOT
    THEN << DirEntry(ROOT, <<".">>), DirEntry(ROOT, <<"..">>),
            DirEntry(INO_SYNC_META, <<".sync_meta">>),
            DirEntry(INO_PROJECTS, <<"projects">>),
            DirEntry(INO_TICKETS, <<"tickets">>) >>
    ELSE IF ino = INO_SYNC_META
    THEN << DirEntry(INO_SYNC_META, <<".">>), DirEntry(ROOT, <<"..">>),
            DirEntry(INO_LAST_SYNC, <<"last_sync">>),
            DirEntry(INO_LAST_FULL_SYNC, <<"last_full_sync">>),
            DirEntry(INO_SECONDS_TO_NEXT, <<"seconds_to_next_sync">>),
            DirEntry(INO_MANUAL_REFRESH, <<"manual_refresh">>),
            DirEntry(INO_FULL_REFRESH, <<"full_refresh">>) >>
    ELSE << DirEntry(INO_TICKETS, <<".">>), DirEntry(ROOT, <<"..">>),
            DirEntry(INO_TICKETS_INDEX, <<"index.jsonl">>) >>

\* The entries of the projects directory: one per configured project.
ProjectEntries(ws) ==
    << DirEntry(INO_PROJECTS, <<".">>), DirEntry(ROOT, <<"..">>) >>
       \o [i \in DOMAIN ws |->
             DirEntry(inode_for_project(ws[i].name), <<ws[i].name>>)]

IssueKinds == <<"Main", "CommentsMarkdown", "CommentsJsonl">>

\* format!("{}.md", key), format!("{}.comments.md", key),
\* format!("{}.comments.jsonl", key)
IssueFileName(issue_key, kind) ==
    issue_key \o (CASE kind = "Main" -> Sfx_md
                    [] kind = "CommentsMarkdown" -> Sfx_comments_md
                    [] kind = "CommentsJsonl" -> Sfx_comments_jsonl)

\* The entries of a project directory: three per issue of the listing, in
\* the order of the listing.
IssueEntries(project, listed) ==
    [i \in 1..(3 * Len(listed)) |->
        LET issue == listed[((i - 1) \div 3) + 1]
            kind == IssueKinds[((i - 1) % 3) + 1]
        IN DirEntry(inode_for_issue_kind(project, issue.key, kind),
                    IssueFileName(issue.key, kind))]

\* The entries of directory ino at time t (ok is false when ino is no
\* directory) and the nodes the handler puts into the table.
ReaddirEntries(pi, ws, ino, t) ==
    IF ino \in {ROOT, INO_SYNC_META, INO_TICKETS}
    THEN [ok |-> TRUE, entries |-> FixedEntries(ino), upsert |-> {}]
    ELSE IF ino = INO_PROJECTS
    THEN [ok |-> TRUE, entries |-> ProjectEntries(ws),
          upsert |-> { <<inode_for_project(p), "Project">> :
                          p \in Projects(ws) }]
    ELSE IF project_for_inode(ws, ino) = {}
    THEN [ok |-> FALSE, entries |-> <<>>, upsert |-> {}]
    ELSE LET project == CHOOSE p \in project_for_inode(ws, ino) : TRUE
             listed == SnapshotIssues(
                           get_project_issues_snapshot(pi, project, t))
             files == IssueEntries(project, listed)
         IN [ok |-> TRUE,
             entries |-> << DirEntry(ino, <<".">>),
                            DirEntry(INO_PROJECTS, <<"..">>) >> \o files,
             upsert |-> { <<files[i].ino, "Issue">> : i \in DOMAIN files }]

\* entries.iter().enumerate().skip(offset), until reply.add reports that
\* the buffer is full; the buffer takes room entries.
Emitted(entries, offset, room) ==
    IF offset >= Len(entries) THEN <<>>
    ELSE SubSeq(entries, offset + 1, Min(Len(entries), offset + room))

RECURSIVE InsertAll(_, _)
InsertAll(table, upsert) ==
    IF upsert = {} THEN table
    ELSE LET u == CHOOSE x \in upsert : TRUE
         IN InsertAll(Insert(table, u[1], u[2]), upsert \ {u})

\* Filesystem::readdir
FsReaddir(ino, offset, room) ==
    \E d \in {ReaddirEntries(project_issues, workspaces, ino, now)} :
        /\ reply' = IF ~d.ok
                    THEN [kind |-> "error", errno |-> "ENOENT"]
                    ELSE [kind |-> "entries",
                          entries |-> Emitted(d.entries, offset, room)]
        /\ nodes' = InsertAll(nodes, d.upsert)
        /\ last' = [NoCall EXCEPT !.op = "readdir", !.parent = ino,
                                  !.n = offset, !.count = room]
        /\ UNCHANGED <<now, project_issues, viewFrame>>

ReaddirInodes == {INO_PROJECTS, inode_for_project("A"), INO_UNKNOWN}

ReaddirOffsets == {0, 2}

ReaddirRooms == {3, 8}

DirLookupNames ==
    { IssueFileName(k, IssueKinds[i]) : k \in {Key_A1, Key_B1}, i \in 1..3 }

NextDir ==
    \/ \E ino \in ReaddirInodes, offset \in ReaddirOffsets,
          room \in ReaddirRooms :
          FsReaddir(ino, offset, room)
    \/ \E name \in DirLookupNames : FsLookup(inode_for_project("A"), name)
    \/ \E refs \in Listings : ViewUpsertProjectIssues("A", refs)
    \/ CacheTick

SpecDir == InitView /\ [][NextDir]_vars

\* The entry is one of an issue's files.
IsIssueEntry(e) == e.name \notin {<<".">>, <<"..">>}

(***************************************************************************)
(* C33: readdir and lookup agree: while the listing is as readdir read     *)
(* it, every issue file name that readdir emitted in a project directory   *)
(* resolves through lookup in that directory to the inode readdir          *)
(* reported, also when the issue key's prefix differs from the workspace   *)
(* name.                                                                   *)
(***************************************************************************)
C33_ReaddirAndLookupAgree ==
    (/\ last.op = "readdir"
     /\ reply.kind = "entries"
     /\ project_for_inode(workspaces, last.parent) # {})
    => \A i \in DOMAIN reply.entries :
          IsIssueEntry(reply.entries[i])
          => LookupOutcome(project_issues, workspaces, last.parent,
                           reply.entries[i].name, now).reply
                = Entry(reply.entries[i].ino)

(***************************************************************************)
(* C34: when a stale-safe read fetches successfully and the memory entry   *)
(* has the same source_updated as the fetched value (both may be absent),  *)
(* the entry's cached_at is refreshed and nothing else changes: bytes, ttl *)
(* and source_updated stay and the durable row is not written; when        *)
(* source_updated differs (or there is no entry), the memory entry becomes *)
(* the fetched bytes with ttl = issue_ttl and the same value is upserted   *)
(* durably.                                                                *)
(***************************************************************************)
C34_SameSourceRefreshesCachedAt ==
    [][ \A k \in CacheKeys :
           (IsReadOf(k) /\ Len(last'.fetched) = 3) =>
              IF HasEntry(k)
                 /\ issue_markdown[k].source_updated = last'.fetched[3]
              THEN /\ issue_markdown'
                         = [issue_markdown EXCEPT ![k].cached_at = now]
                   /\ UNCHANGED <<issues, ticket_index>>
              ELSE /\ k \in DOMAIN issue_markdown'
                   /\ issue_markdown'[k]
                         = CacheEntry(last'.fetched[2], now, issue_ttl,
                                      last'.fetched[3])
                   /\ persistent =>
                         /\ HasRow(issues', k)
                         /\ RowOf(issues', k).markdown = last'.fetched[2]
                         /\ RowOf(issues', k).updated = last'.fetched[3]
      ]_vars

\* The refs of workspace w's listing in pi (none when it is absent).
ListingOf(pi, w) == IF w \in DOMAIN pi THEN pi[w].value ELSE <<>>

RefKeys(refs) == { refs[i].key : i \in DOMAIN refs }

\* The updated value that refs gives to key k.
UpdatedIn(refs, k) == refs[CHOOSE i \in DOMAIN refs : refs[i].key = k].updated

\* Strictly ascending by key: sorted, and each key once.
AscendingByKey(refs) ==
    \A a, b \in DOMAIN refs : a < b => StrLess(refs[a].key, refs[b].key)

(***************************************************************************)
(* C35: the listing update of a sync pass.  For a workspace whose request  *)
(* succeeded: with no cursor (or force_full) the listing becomes the refs  *)
(* of the page; with a cursor the new listing holds exactly the keys of    *)
(* the previous listing and of the page, each once, sorted by key          *)
(* ascending, with the page's updated for the keys of the page and the     *)
(* previous updated for the others, so that no key is removed.             *)
(***************************************************************************)
C35_ListingUpdate ==
    [][IsPass =>
         \A j \in DOMAIN last'.log :
            LET w == last'.log[j].workspace
                page == last'.log[j].page
                old == ListingOf(project_issues, w)
                new == ListingOf(project_issues', w)
            IN last'.log[j].ok =>
                 IF last'.log[j].cursor = {}
                 THEN /\ w \in DOMAIN project_issues'
                      /\ new = page
                 ELSE /\ w \in DOMAIN project_issues'
                      /\ RefKeys(new) = RefKeys(old) \cup RefKeys(page)
                      /\ AscendingByKey(new)
                      /\ \A k \in RefKeys(new) :
                            UpdatedIn(new, k)
                               = IF k \in RefKeys(page)
                                 THEN UpdatedIn(page, k)
                                 ELSE UpdatedIn(old, k)
      ]_vars

\* An incremental pass has merged a page into a listing: the page brought a
\* new updated for a key the listing had and the listing keeps a key that
\* the page does not hold.
C35_Witness ==
    /\ last.op = "sync_issues"
    /\ \E j \in DOMAIN last.log :
          /\ last.log[j].ok
          /\ last.log[j].cursor # {}
          /\ last.log[j].page # <<>>
          /\ RefKeys(ListingOf(project_issues, last.log[j].workspace))
                # RefKeys(last.log[j].page)
          /\ Len(ListingOf(project_issues, last.log[j].workspace)) = 2

(***************************************************************************)
(* SpecTrig: the threads of Spec (init, the initial pass, the polling      *)
(* workers) together with the write handler and with any thread calling    *)
(* either check_and_clear at any time.                                     *)
(***************************************************************************)
NextTrig ==
    \/ FsInit
    \/ InitialMarkSyncStart
    \/ InitialSyncIssues
    \/ InitialMarkSyncComplete
    \/ InitialMarkSyncEnd
    \/ \E t \in Workers : WorkerPoll(t)
    \/ \E t \in Workers : WorkerMarkSyncStart(t)
    \/ \E t \in Workers : WorkerSyncIssues(t)
    \/ \E t \in Workers : WorkerMarkSyncComplete(t)
    \/ \E t \in Workers : WorkerMarkSyncEnd(t)
    \/ \E ino \in WriteInodes, offset \in {0, 1}, data \in WriteData :
          Write(ino, offset, data)
    \/ CheckAndClearManualTrigger
    \/ CheckAndClearManualFullTrigger

SpecTrig == Init /\ [][NextTrig]_vars

\* C36: a trigger flag that is set stays set on every step (mark_sync_start,
\* mark_sync_end, mark_sync_complete, mark_full_sync_complete, ignored and
\* rejected writes, a pass in progress) other than a
\* check_and_clear of that same trigger, made directly or by a polling
\* worker; a check_and_clear of one trigger leaves the other as it was.
C36_ArmedTriggerNeverLost ==
    [][/\ (manual_trigger /\ ~manual_trigger')
             => \/ pc' = pc /\ CheckAndClearManualTrigger
                \/ \E t \in Workers : WorkerPoll(t)
       /\ (manual_full_trigger /\ ~manual_full_trigger')
             => \/ pc' = pc /\ CheckAndClearManualFullTrigger
                \/ \E t \in Workers : WorkerPoll(t)
       /\ (pc' = pc /\ CheckAndClearManualTrigger)
             => manual_full_trigger' = manual_full_trigger
       /\ (pc' = pc /\ CheckAndClearManualFullTrigger)
             => manual_trigger' = manual_trigger
      ]_vars

\* The manual trigger was armed before a pass that has since completed and
\* is about to release the slot, a write was rejected after it, the full
\* trigger has been cleared, and the manual trigger is still set.
C36_Witness ==
    /\ manual_trigger
    /\ ~manual_full_trigger
    /\ cleared.flag = "full" /\ cleared.value
    /\ \E t \in Workers : pc[t] = "ending"
    /\ reply = [kind |-> "error", errno |-> "EINVAL"]

(***************************************************************************)
(* SpecInitial: init is called any number of times; the thread it spawns   *)
(* runs mark_sync_start, one call of sync_issues, mark_sync_complete and   *)
(* mark_sync_end, while a polling worker competes for the slot and the     *)
(* tracker changes.  SpecInitialFair adds that the spawned thread, an OS   *)
(* thread, is not stopped forever while it can take a step.                *)
(***************************************************************************)
\* sync_issues(&jira, &cache, &projects, sync_budget, false) as the spawned
\* closure calls it: the pass of SyncPass with force_full false, made by
\* the initial thread between mark_sync_start and mark_sync_complete.
InitialRunSyncIssues(budget, fails, perm) ==
    /\ pc[InitialThread] = "syncing"
    /\ \E e \in {sync_issues(Engine,
                          [workspaces |-> workspaces, budget |-> budget,
                           force_full |-> FALSE, upstream |-> upstream,
                           perm |-> perm, fails |-> fails,
                           faults |-> NoFaults, t |-> now, ttl |-> issue_ttl,
                           project_ttl |-> project_ttl],
                          persistent)} :
        /\ SetDb(e.db)
        /\ sync_cursor' = e.cur
        /\ issue_markdown' = e.mem
        /\ project_issues' = e.pi
        /\ last' = [NoCall EXCEPT !.op = "sync_issues", !.budget = budget,
                                  !.force_full = FALSE, !.result = e.result,
                                  !.log = e.log]
    /\ pc' = [pc EXCEPT ![InitialThread] = "synced"]
    /\ UNCHANGED <<last_sync, last_full_sync, manual_trigger,
                   manual_full_trigger, sync_in_progress,
                   initial_sync_started, force_full, reply, wins, lost, now,
                   fsVars, expect, persistent, issue_ttl, project_ttl,
                   stale_served, threadVars, workspaces, upstream>>

\* The steps of the spawned thread.
InitialThreadStep ==
    \/ InitialMarkSyncStart
    \/ \E budget \in 0..MaxBudget, fails \in SUBSET {1, 2}, perm \in Perms :
          InitialRunSyncIssues(budget, fails, perm)
    \/ InitialMarkSyncComplete
    \/ InitialMarkSyncEnd

NextInitial ==
    \/ FsInit
    \/ InitialThreadStep
    \/ \E t \in Workers : WorkerPoll(t)
    \/ \E t \in Workers : WorkerMarkSyncStart(t)
    \/ \E t \in Workers : WorkerSyncIssues(t)
    \/ \E t \in Workers : WorkerMarkSyncComplete(t)
    \/ \E t \in Workers : WorkerMarkSyncEnd(t)
    \/ \E k \in EditedKeys : UpstreamChange(k)

SpecInitial == InitSync /\ [][NextInitial]_vars

SpecInitialFair == SpecInitial /\ WF_pc(InitialThreadStep)

\* Some(instant) as opposed to None.
IsSome(option) == ToString(option) # ToString(None)

\* C37: the initial pass is spawned at most once however often init runs;
\* once it has won mark_sync_start it calls sync_issues, then
\* mark_sync_complete, then mark_sync_end, whatever sync_issues reported, so
\* that sync_in_progress eventually becomes false again; in the state where
\* the pass is about to release the slot, and after, last_sync is set.
C37_InitialPassRunsOnceAndFinishes ==
    /\ [][/\ pc[InitialThread] # "unspawned"
                => pc'[InitialThread] \notin {"unspawned", "start"}
                      \/ pc'[InitialThread] = pc[InitialThread]
          /\ (initial_sync_started /\ FsInit) => pc' = pc
          /\ pc'[InitialThread] # pc[InitialThread]
                => \/ /\ pc[InitialThread] = "unspawned"
                      /\ pc'[InitialThread] = "start"
                   \/ /\ pc[InitialThread] = "start"
                      /\ pc'[InitialThread] =
                            IF sync_in_progress THEN "returned" ELSE "syncing"
                   \/ /\ pc[InitialThread] = "syncing"
                      /\ pc'[InitialThread] = "synced"
                      /\ last'.op = "sync_issues"
                      /\ sync_in_progress'
                   \/ /\ pc[InitialThread] = "synced"
                      /\ pc'[InitialThread] = "ending"
                      /\ last_sync' = now
                      /\ sync_in_progress'
                   \/ /\ pc[InitialThread] = "ending"
                      /\ pc'[InitialThread] = "returned"
                      /\ IsSome(last_sync)
                      /\ ~sync_in_progress'
         ]_vars
    /\ [](pc[InitialThread] = "ending" => IsSome(last_sync))
    /\ (pc[InitialThread] = "syncing") ~> ~sync_in_progress
    /\ (pc[InitialThread] = "syncing") ~> (pc[InitialThread] = "returned")

\* The initial pass ran a sync_issues that reported an error, completed and
\* released the slot.
C37_Witness ==
    /\ pc[InitialThread] = "returned"
    /\ initial_sync_started
    /\ ~sync_in_progress
    /\ IsSome(last_sync)
    /\ last.op = "sync_issues"
    /\ last.result.errors # <<>>

(***************************************************************************)
(* SpecAttr: the sizes that lookup and getattr report for issue files,     *)
(* over a cache with or without a durable store whose listing, issues and  *)
(* sidecars are written and which restarts.                                *)
(***************************************************************************)
\* The three kinds of issue file.
IssueKindSet == { IssueKinds[i] : i \in DOMAIN IssueKinds }

\* Option::or_else and Option::unwrap_or on an option held as a set.
OrElse(option, other) == IF option # {} THEN option ELSE other

UnwrapOr(option, default) ==
    IF option = {} THEN default ELSE CHOOSE x \in option : TRUE

\* InMemoryCache::cached_issue_len: entry.value.markdown.len()
cached_issue_len(c, issue_key) ==
    { Len(Bytes(entry.markdown)) : entry \in Lookup(c.mem, issue_key) }

\* InMemoryCache::persistent_issue_len: SELECT length(markdown) FROM issues
persistent_issue_len(c, issue_key) ==
    IF c.persistent /\ HasRow(c.db.issues, issue_key)
    THEN {Len(Bytes(RowOf(c.db.issues, issue_key).markdown))}
    ELSE {}

\* InMemoryCache::persistent_comments_md_len
persistent_comments_md_len(c, issue_key) ==
    IF c.persistent /\ HasRow(c.db.issue_sidecars, issue_key)
    THEN {Len(RowOf(c.db.issue_sidecars, issue_key).comments_md)}
    ELSE {}

\* InMemoryCache::persistent_comments_jsonl_len
persistent_comments_jsonl_len(c, issue_key) ==
    IF c.persistent /\ HasRow(c.db.issue_sidecars, issue_key)
    THEN {Len(RowOf(c.db.issue_sidecars, issue_key).comments_jsonl)}
    ELSE {}

\* JiraFuseFs::issue_main_size
issue_main_size(c, issue_key) ==
    UnwrapOr(OrElse(cached_issue_len(c, issue_key),
                    persistent_issue_len(c, issue_key)), 0)

\* JiraFuseFs::issue_sidecar_size
issue_sidecar_size(c, issue_key, kind) ==
    CASE kind = "Main" -> issue_main_size(c, issue_key)
      [] kind = "CommentsMarkdown" ->
            UnwrapOr(persistent_comments_md_len(c, issue_key), 64)
      [] kind = "CommentsJsonl" ->
            UnwrapOr(persistent_comments_jsonl_len(c, issue_key), 96)

\* file_attr(ino, size, false) and dir_attr(ino), as far as a reply shows.
FileAttr(ino, size) == [ino |-> ino, file |-> TRUE, size |-> size]

DirAttr(ino) == [ino |-> ino, file |-> FALSE, size |-> 0]

\* The Node::Issue { key, kind } that the table holds under ino: an Issue
\* node is stored under inode_for_issue_kind of its project, key and kind
\* only.
IssueNodeOfKind(table, ws, ino) ==
    { n \in [key : CacheKeys \cup UpstreamKeys, kind : IssueKindSet] :
        /\ Lookup(table, ino) = {"Issue"}
        /\ \E p \in Projects(ws) :
              inode_for_issue_kind(p, n.key, n.kind) = ino }

\* Filesystem::lookup with the attributes of its entry.
FsLookupAttr(parent, name) ==
    \E o \in {LookupOutcome(project_issues, workspaces, parent, name, now)} :
        /\ nodes' = IF o.upsert = {} THEN nodes
                    ELSE LET n == CHOOSE u \in o.upsert : TRUE
                         IN Insert(nodes, n[1], n[2])
        /\ reply' =
              IF o.reply.kind # "entry" THEN o.reply
              ELSE IF \E u \in o.upsert : u[2] = "Issue"
              THEN LET file == CHOOSE f \in IssueFileOf(name) : TRUE
                   IN [kind |-> "entry",
                       attr |-> FileAttr(o.reply.ino,
                                         issue_sidecar_size(Cache, file[1],
                                                            file[2]))]
              ELSE [kind |-> "entry", attr |-> DirAttr(o.reply.ino)]
        /\ last' = [NoCall EXCEPT !.op = "lookup", !.parent = parent,
                                  !.name = name, !.metric = o.metric]
        /\ UNCHANGED <<now, project_issues, viewFrame>>

\* Filesystem::getattr of an inode that is none of the fixed ones.
FsGetattr(ino) ==
    /\ IF project_for_inode(workspaces, ino) # {}
       THEN /\ nodes' = Insert(nodes, ino, "Project")
            /\ reply' = [kind |-> "attr", attr |-> DirAttr(ino)]
       ELSE /\ nodes' = nodes
            /\ reply' =
                  IF IssueNodeOfKind(nodes, workspaces, ino) # {}
                  THEN LET n == CHOOSE n \in IssueNodeOfKind(nodes, workspaces,
                                                            ino) : TRUE
                       IN [kind |-> "attr",
                           attr |-> FileAttr(ino,
                                             issue_sidecar_size(Cache, n.key,
                                                                n.kind))]
                  ELSE IF Lookup(nodes, ino) = {"Project"}
                  THEN [kind |-> "attr", attr |-> DirAttr(ino)]
                  ELSE [kind |-> "error", errno |-> "ENOENT"]
    /\ last' = [NoCall EXCEPT !.op = "getattr", !.parent = ino]
    /\ UNCHANGED <<now, project_issues, viewFrame>>

\* InMemoryCache::upsert_issue_sidecars_batch of one row.
AttrUpsertSidecars(row) ==
    /\ persistent
    /\ SetDb(upsert_issue_sidecars_batch(Engine, <<row>>, now, 0).db)
    /\ last' = [NoCall EXCEPT !.op = "cache_upsert_issue_sidecars_batch"]
    /\ UNCHANGED <<syncVars, fsVars, engineVars, now, expect, cacheVars>>

\* The process restarts and the filesystem is mounted again: the durable
\* store is reopened, the maps and the node table start empty.
AttrRestart ==
    /\ issue_markdown' = <<>>
    /\ project_issues' = <<>>
    /\ nodes' = (ROOT :> "Root")
    /\ reply' = [kind |-> "none"]
    /\ SetDb(IF persistent THEN persistent_new(Db, now) ELSE Db)
    /\ last' = [NoCall EXCEPT !.op = "new"]
    /\ UNCHANGED <<last_sync, last_full_sync, manual_trigger,
                   manual_full_trigger, sync_in_progress,
                   initial_sync_started, pc, force_full, wins, lost, now,
                   pending, cleared, expect, persistent, issue_ttl,
                   project_ttl, stale_served, threadVars, sync_cursor,
                   workspaces, upstream>>

AttrNames ==
    { Key_AB2 \o sfx : sfx \in {Sfx_md, Sfx_comments_md, Sfx_comments_jsonl} }

AttrInodes ==
    { inode_for_issue_kind("A", Key_AB2, kind) : kind \in IssueKindSet }
    \cup {inode_for_project("A"), INO_UNKNOWN}

\* A sidecar row (key, comments_md, comments_jsonl, updated) as the sync
\* engine writes it, with an empty comments_jsonl.
AttrSidecarRows == { <<Key_AB2, <<"x", "y">>, <<>>, "u1">> }

NextAttr ==
    \/ \E name \in AttrNames : FsLookupAttr(inode_for_project("A"), name)
    \/ \E ino \in AttrInodes : FsGetattr(ino)
    \/ ViewUpsertProjectIssues("A", <<Ref(Key_AB2)>>)
    \/ \E m \in Markdowns, fail \in {0, 1} :
          CacheUpsertIssueDirect(Key_AB2, m, "u1", fail)
    \/ \E row \in AttrSidecarRows : AttrUpsertSidecars(row)
    \/ AttrRestart

SpecAttr == InitRead /\ [][NextAttr]_vars

\* The step is a lookup or getattr that replied the attributes of the file
\* of the given kind of issue A-B-2.
RepliesAttrOf(kind) ==
    /\ last'.op \in {"lookup", "getattr"}
    /\ reply'.kind \in {"entry", "attr"}
    /\ reply'.attr.ino = inode_for_issue_kind("A", Key_AB2, kind)

\* C38: lookup and getattr report for an issue's main file the length of
\* the memory entry, else the length of the durable row, and for each
\* sidecar the length of its durable text; when that size is not known the
\* size reported is not 0.
C38_SizeNeverZeroWhenUnknown ==
    [][/\ RepliesAttrOf("Main")
          => IF Key_AB2 \in DOMAIN issue_markdown
             THEN reply'.attr.size = Len(Bytes(issue_markdown[Key_AB2].markdown))
             ELSE IF persistent /\ HasRow(issues, Key_AB2)
             THEN reply'.attr.size = Len(Bytes(RowOf(issues, Key_AB2).markdown))
             ELSE reply'.attr.size # 0
       /\ RepliesAttrOf("CommentsMarkdown")
          => IF persistent /\ HasRow(issue_sidecars, Key_AB2)
             THEN reply'.attr.size
                     = Len(RowOf(issue_sidecars, Key_AB2).comments_md)
             ELSE reply'.attr.size # 0
       /\ RepliesAttrOf("CommentsJsonl")
          => IF persistent /\ HasRow(issue_sidecars, Key_AB2)
             THEN reply'.attr.size
                     = Len(RowOf(issue_sidecars, Key_AB2).comments_jsonl)
             ELSE reply'.attr.size # 0
      ]_vars

(***************************************************************************)
(* SpecJql: split_jql_order_by (warmup.rs) on query texts put together     *)
(* from a few pieces.                                                      *)
(***************************************************************************)
Str_order == <<"o", "r", "d", "e", "r">>
Str_by == <<"b", "y">>

\* \w of the regex, on the characters of the model.
IsWordChar(c) ==
    c \in {"o", "r", "d", "e", "b", "y", "x", "O", "R", "D", "E", "B", "Y"}

\* \b at position i: exactly one of s[i - 1] and s[i] is a word character.
WordBoundary(s, i) ==
    (i > 1 /\ IsWordChar(s[i - 1])) # (i <= Len(s) /\ IsWordChar(s[i]))

\* (?i) on a literal: the text at i is the word in some letter case.
HasWordAt(s, i, word) ==
    /\ i + Len(word) - 1 <= Len(s)
    /\ ToLowercase(SubSeq(s, i, i + Len(word) - 1)) = word

\* \s+ is greedy: the first position at or after i that holds no space.
RECURSIVE SkipSpaces(_, _)
SkipSpaces(s, i) ==
    IF i <= Len(s) /\ IsSpace(s[i]) THEN SkipSpaces(s, i + 1) ELSE i

\* The pattern without its two \b.
MatchesAtAnywhere(s, i) ==
    /\ HasWordAt(s, i, Str_order)
    /\ SkipSpaces(s, i + 5) > i + 5
    /\ HasWordAt(s, SkipSpaces(s, i + 5), Str_by)

\* (?i)\border\s+by\b matches at position i.
MatchesAt(s, i) ==
    /\ WordBoundary(s, i)
    /\ HasWordAt(s, i, Str_order)
    /\ SkipSpaces(s, i + 5) > i + 5
    /\ HasWordAt(s, SkipSpaces(s, i + 5), Str_by)
    /\ WordBoundary(s, SkipSpaces(s, i + 5) + 2)

\* Regex::find from position i on: the start of the leftmost match.
RECURSIVE RegexFind(_, _)
RegexFind(s, i) ==
    IF i > Len(s) THEN {}
    ELSE IF MatchesAt(s, i) THEN {i}
    ELSE RegexFind(s, i + 1)

\* split_jql_order_by(jql): (filter, Option<order>)
split_jql_order_by(jql) ==
    LET trimmed == Trim(jql)
        matched == RegexFind(trimmed, 1)
    IN IF matched = {} THEN [filter |-> trimmed, order |-> {}]
       ELSE LET start == CHOOSE i \in matched : TRUE
                filter == Trim(SubSeq(trimmed, 1, start - 1))
                order == Trim(SubSeq(trimmed, start, Len(trimmed)))
            IN IF filter = <<>> THEN [filter |-> trimmed, order |-> {}]
               ELSE [filter |-> filter, order |-> {order}]

\* The pieces of the query texts and the number of pieces of a text.
MaxPieces == 3

Pieces == { <<"x">>, <<" ">>, <<")">>,
            <<"o", "r", "d", "e", "r", " ", "b", "y">>,
            <<" ", "O", "r", "D", "E", "R", "\t", " ", "B", "Y">>,
            <<"o", "r", "d", "e", "r">>, <<"b", "Y">> }

RECURSIVE Flatten(_)
Flatten(pieces) ==
    IF pieces = <<>> THEN <<>> ELSE Head(pieces) \o Flatten(Tail(pieces))

JqlInputs ==
    { Flatten(ps) : ps \in UNION { [1..n -> Pieces] : n \in 0..MaxPieces } }

\* The workspace's base query is split once, when its pass begins.
SplitJql(jql) ==
    /\ last.op = "none"
    /\ \E r \in {split_jql_order_by(jql)} :
          last' = [NoCall EXCEPT !.op = "split_jql_order_by", !.name = jql,
                                 !.key = r.filter, !.fetched = r.order]
    /\ UNCHANGED <<syncVars, now, storeVars, cacheVars, engineVars, fsVars>>

NextJql == \E jql \in JqlInputs : SplitJql(jql)

SpecJql == InitView /\ [][NextJql]_vars

\* The text has a whole-word "order by" in any letter case at position i:
\* "order", one or more spaces, "by", with no word character right before
\* or right after.
OrderByAt(t, i) ==
    \E n \in 1..Len(t) :
        /\ i + 6 + n <= Len(t)
        /\ ToLowercase(SubSeq(t, i, i + 4)) = Str_order
        /\ \A j \in (i + 5)..(i + 4 + n) : IsSpace(t[j])
        /\ ToLowercase(SubSeq(t, i + 5 + n, i + 6 + n)) = Str_by
        /\ i = 1 \/ ~IsWordChar(t[i - 1])
        /\ i + 6 + n = Len(t) \/ ~IsWordChar(t[i + 7 + n])

\* A text without its whitespace.
NoSpaces(t) == SelectSeq(t, LAMBDA c : ~IsSpace(c))

\* C39: split_jql_order_by splits the trimmed query at its first whole-word
\* "order by" in any letter case: with a non-empty filter before it the
\* result is the trimmed text before it and the trimmed text from it on;
\* with no order-by the result is the trimmed query and no order clause;
\* the filter followed by the order clause is the trimmed query up to
\* whitespace.
C39_SplitAtFirstOrderBy ==
    last.op = "split_jql_order_by"
    => LET t == Trim(last.name)
           occ == { i \in 1..Len(t) : OrderByAt(t, i) }
           order == IF last.fetched = {} THEN <<>>
                    ELSE CHOOSE o \in last.fetched : TRUE
       IN /\ occ = {} => last.key = t /\ last.fetched = {}
          /\ occ # {}
             => LET first == CHOOSE i \in occ : \A j \in occ : i <= j
                IN Trim(SubSeq(t, 1, first - 1)) # <<>>
                   => /\ last.key = Trim(SubSeq(t, 1, first - 1))
                      /\ last.fetched = {Trim(SubSeq(t, first, Len(t)))}
          /\ NoSpaces(last.key \o order) = NoSpaces(t)

\* A query with two order-by clauses in different letter case and spacing
\* was split at the first.
C39_Witness ==
    /\ last.op = "split_jql_order_by"
    /\ last.name = <<")", "o", "r", "d", "e", "r", " ", "b", "y",
                     " ", "O", "r", "D", "E", "R", "\t", " ", "B", "Y">>
    /\ last.key = <<")">>
    /\ last.fetched = {<<"o", "r", "d", "e", "r", " ", "b", "y",
                         " ", "O", "r", "D", "E", "R", "\t", " ", "B", "Y">>}

(***************************************************************************)
(* SpecInode: namespace_hash and the inode functions of fs.rs with their   *)
(* 64-bit arithmetic.  A u64 is the sequence of its eight bytes, lowest    *)
(* first; a name is the sequence of its bytes.                             *)
(***************************************************************************)
\* 0xcbf2_9ce4_8422_2325
FnvOffset == <<37, 35, 34, 132, 228, 156, 242, 203>>

\* The low part of the prime 0x0000_0100_0000_01b3 = 2^40 + 0x1b3.
FnvPrimeLow == 435

\* u64::from(n) of a number below 2^31.
ToU64(n) ==
    <<n % 256, (n \div 256) % 256, (n \div 65536) % 256,
      (n \div 16777216) % 256, 0, 0, 0, 0>>

\* a ^ b on numbers of the given number of bits.
RECURSIVE BitXor(_, _, _)
BitXor(a, b, bits) ==
    IF bits = 0 THEN 0
    ELSE (((a % 2) + (b % 2)) % 2) + 2 * BitXor(a \div 2, b \div 2, bits - 1)

\* hash ^= u64::from(byte)
XorByte(hash, byte) == [hash EXCEPT ![1] = BitXor(@, byte, 8)]

\* hash.wrapping_mul(prime) from byte i on: hash * 0x1b3 + (hash << 40),
\* byte by byte with the carry, the carry out of byte 8 dropped.
RECURSIVE MulPrimeFrom(_, _, _)
MulPrimeFrom(hash, i, carry) ==
    IF i > 8 THEN <<>>
    ELSE LET t == hash[i] * FnvPrimeLow
                     + (IF i > 5 THEN hash[i - 5] ELSE 0) + carry
         IN <<t % 256>> \o MulPrimeFrom(hash, i + 1, t \div 256)

wrapping_mul_prime(hash) == MulPrimeFrom(hash, 1, 0)

\* for b in bytes { hash ^= u64::from(*b); hash = hash.wrapping_mul(prime) }
RECURSIVE HashBytes(_, _)
HashBytes(hash, bytes) ==
    IF bytes = <<>> \/ Len(hash) # 8 THEN hash
    ELSE HashBytes(wrapping_mul_prime(XorByte(hash, Head(bytes))),
                   Tail(bytes))

\* hash | (1_u64 << 63)
SetBit63(hash) == [hash EXCEPT ![8] = IF @ < 128 THEN @ + 128 ELSE @]

\* namespace_hash(namespace, bytes) as a u64.
namespace_hash_u64(namespace, bytes) ==
    LET hash == HashBytes(wrapping_mul_prime(XorByte(FnvOffset, namespace)),
                          bytes)
        value == SetBit63(hash)
    IN IF value = ToU64(1) THEN ToU64(3) ELSE value

Bytes_slash == <<47>>
Bytes_comments_md == <<35, 99, 111, 109, 109, 101, 110, 116, 115, 46, 109, 100>>
Bytes_comments_jsonl ==
    <<35, 99, 111, 109, 109, 101, 110, 116, 115, 46, 106, 115, 111, 110, 108>>

\* inode_for_project, inode_for_issue and inode_for_issue_kind as u64.
inode_for_project_u64(project) == namespace_hash_u64(17, project)

inode_for_issue_u64(project, issue_key) ==
    namespace_hash_u64(34, project \o Bytes_slash \o issue_key)

inode_for_issue_kind_u64(project, issue_key, kind) ==
    CASE kind = "Main" -> inode_for_issue_u64(project, issue_key)
      [] kind = "CommentsMarkdown" ->
            namespace_hash_u64(35, project \o Bytes_slash \o issue_key
                                      \o Bytes_comments_md)
      [] kind = "CommentsJsonl" ->
            namespace_hash_u64(36, project \o Bytes_slash \o issue_key
                                      \o Bytes_comments_jsonl)

\* The names hashed: every text of up to MaxNameLen bytes out of "A" and
\* "1" as a project, followed by "-" and such a text as an issue key;
\* and the key A-04T<'$:7Wt|', (fifteen printable bytes).
MaxNameLen == 2

NameBytes == {65, 49}

Names == UNION { [1..n -> NameBytes] : n \in 0..MaxNameLen }

Key_colliding ==
    <<65, 45, 48, 52, 84, 60, 39, 36, 58, 55, 87, 116, 124, 39, 44>>

InodeKeys == { p \o <<45>> \o n : p \in Names, n \in Names }
                \cup {Key_colliding}

\* The inodes that a lookup of an issue file computes: the one of the
\* project directory it is in and the ones of the issue's three files.
InodesOf(project, issue_key) ==
    /\ last.op = "none"
    /\ last' = [NoCall EXCEPT
                  !.op = "inodes", !.name = project, !.key = issue_key,
                  !.rows = [kind \in IssueKindSet |->
                              inode_for_issue_kind_u64(project, issue_key,
                                                       kind)],
                  !.fetched = inode_for_project_u64(project)]
    /\ UNCHANGED <<syncVars, now, storeVars, cacheVars, engineVars, fsVars>>

NextInode == \E project \in Names, issue_key \in InodeKeys :
                InodesOf(project, issue_key)

SpecInode == InitView /\ [][NextInode]_vars

\* The root inode and the fixed inodes.
ReservedInodes ==
    { ToU64(n) : n \in {ROOT, INO_SYNC_META, INO_LAST_SYNC,
                        INO_SECONDS_TO_NEXT, INO_MANUAL_REFRESH,
                        INO_FULL_REFRESH, INO_LAST_FULL_SYNC, INO_PROJECTS,
                        INO_TICKETS, INO_TICKETS_INDEX} }

\* C40: every project inode and issue inode has bit 63 set and is none of
\* the root and fixed inodes, and the inode of a project differs from the
\* inode of each issue of it, for any project name and issue key.
C40_InodesReservedAndDistinct ==
    last.op = "inodes"
    => /\ last.fetched[8] >= 128
       /\ last.fetched \notin ReservedInodes
       /\ \A kind \in IssueKindSet :
             /\ last.rows[kind][8] >= 128
             /\ last.rows[kind] \notin ReservedInodes
       /\ last.fetched # last.rows["Main"]

====
